---- MODULE Spec2Model ----
(***************************************************************************)
(* The collection orchestration engine of lotion-intel: the scheduler     *)
(* (scheduler/collection_scheduler.py), the collector                     *)
(* (collectors/base_collector.py, collectors/perplexity_collector.py) and *)
(* the process-wide rate limiter, deduplication cache, validator and      *)
(* classifier (collectors/utils/__init__.py).                             *)
(*                                                                         *)
(* Time is counted in whole seconds.  Text is a sequence of one-character *)
(* strings.  Python's None is the empty sequence and a present value x is *)
(* <<x>>.  A dict is a record; d.get(k, default) is Get(d, k, default).   *)
(***************************************************************************)
EXTENDS Integers, Sequences, FiniteSets, TLC

VARIABLES
    now,                \* datetime.utcnow(), in seconds
    topics,             \* table monitored_topics: topic id -> row
    posts,              \* table posts: the Content Records, in insertion order
    logs,               \* table collection_logs: the Collection Attempts, by id
    calls_per_minute,   \* rate_limiter.calls_per_minute
    calls_per_day,      \* rate_limiter.calls_per_day
    last_call_time,     \* rate_limiter.last_call_time
    url_cache,          \* deduplication_manager.url_cache
    content_hash_cache, \* deduplication_manager.content_hash_cache
    pc,                 \* position of the scheduler / collector
    due_topics,         \* run_collection_cycle: the sorted due list (Topic snapshots)
    ti,                 \* run_collection_cycle: index of the topic of the for loop
    results,            \* run_collection_cycle: the results dict
    col,                \* collect_for_topic: its local variables
    call_history,       \* history: the timestamps record_call() recorded
    requests_sent,      \* history: number of make_api_request calls
    handed,             \* history: per topic handed to collect_for_topic this cycle
    db_failures,        \* history: number of storage calls that raised
    health_checks,      \* history: number of get_system_health calls
    wait_history,       \* history: the seconds wait_if_needed slept before each record_call()
    selected,           \* history: the ids get_due_for_collection returned this cycle
    batches,            \* history: by Collection Attempt id, the raw_posts it collected
    cycles,             \* history: number of run_collection_cycle calls
    running,            \* scheduler.running
    loop,               \* position of run_continuous: "off", "running" or "ended"
    interval_minutes,   \* run_continuous: its argument
    interrupted,        \* history: a KeyboardInterrupt was raised in run_continuous
    stop_requested,     \* history: stop() was called
    cache_ops,          \* history: the calls of add_url, add_content and clear_cache
    call_args,          \* a direct call of one function: its name and arguments
    call_result,        \* a direct call of one function: what it returned
    limiter_calls,      \* history: number of calls made to the rate limiter on its own
    workers             \* by thread that runs collect_for_topic: its position and locals

vars == <<now, topics, posts, logs, calls_per_minute, calls_per_day,
          last_call_time, url_cache, content_hash_cache, pc, due_topics, ti,
          results, col, call_history, requests_sent, handed, db_failures,
          health_checks, wait_history, selected, batches, cycles, running, loop,
          interval_minutes, interrupted, stop_requested, cache_ops, call_args,
          call_result, limiter_calls, workers>>

---------------------------------------------------------------------------
(* Bounds of the model *)

\* Calls of the Deduplication Cache made on its own.
MaxCacheOps == 3

\* collect_for_topic invocations of each of the threads that run side by side
MaxInvocations == 2

\* Calls of the rate limiter made on its own.
MaxLimiterCalls == 5

\* the answer texts extract_citations is called with have at most this many pieces
MaxTokens == 3
\* The clock stops here.
MaxTime == 64
\* Number of rows of monitored_topics.
NumTopics == 4
\* Storage calls that may raise in one run.
MaxDbFailures == 1
\* Health checks in one run.
MaxHealthChecks == 1
\* Collection cycles in one run.
MaxCycles == 2

(* Configuration (config/settings.py, read from the environment) *)

\* MAX_QUERIES_PER_MINUTE as configured for the model (default 10).
max_queries_per_minute == 3
\* MAX_QUERIES_PER_DAY as configured for the model (default 1000).
max_queries_per_day == 4
\* QUERY_DELAY_SECONDS (default 6.0).
query_delay_seconds == 6
\* MIN_CONTENT_LENGTH (default 50).
min_content_length == 50

(* Program constants *)

\* timedelta(minutes=1), in seconds
SecondsPerMinute == 60
\* timedelta(days=1), in seconds
SecondsPerDay == 86400
\* time.sleep(1) between topics
TopicPauseSeconds == 1
\* citation_text[:500]
SnippetLimit == 500
\* urls[:10]
MaxFallbackUrls == 10
\* url_start - 100 .. url_start + len(url) + 100
SurroundingChars == 100
\* PostBase.source_title max_length
MaxTitleLength == 500

---------------------------------------------------------------------------
(* Python values *)

None == <<>>
Some(x) == <<x>>
EmptyDict == <<>>

Get(d, k, default) == IF k \in DOMAIN d THEN d[k] ELSE default

Max(a, b) == IF a >= b THEN a ELSE b
Min(a, b) == IF a <= b THEN a ELSE b

(* Text *)

Rep(c, n) == [i \in 1..n |-> c]

IsSpace(c) == c \in {" ", "\n"}
IsDigit(c) == c \in {"0", "1", "2", "3", "4", "5", "6", "7", "8", "9"}
LowerLetters == <<"a", "b", "c", "d", "e", "f", "g", "h", "i", "j", "k", "l", "m", "n", "o", "p", "q", "r", "s", "t", "u", "v", "w", "x", "y", "z">>
UpperLetters == <<"A", "B", "C", "D", "E", "F", "G", "H", "I", "J", "K", "L", "M", "N", "O", "P", "Q", "R", "S", "T", "U", "V", "W", "X", "Y", "Z">>

IsAlpha(c) == \E k \in 1..26 : c = LowerLetters[k] \/ c = UpperLetters[k]

\* str.lower() on one character
LowerChar(c) ==
    IF \E k \in 1..26 : c = UpperLetters[k]
    THEN LowerLetters[CHOOSE k \in 1..26 : c = UpperLetters[k]]
    ELSE c

lower(s) == [i \in 1..Len(s) |-> LowerChar(s[i])]

\* s[a-1:b] of Python, with 1-based inclusive bounds; empty when a > b
Slice(s, a, b) == IF a > b THEN <<>> ELSE SubSeq(s, a, b)

RECURSIVE lstrip(_)
lstrip(s) == IF s # <<>> /\ IsSpace(Head(s)) THEN lstrip(Tail(s)) ELSE s

RECURSIVE rstrip(_)
rstrip(s) ==
    IF s # <<>> /\ IsSpace(s[Len(s)]) THEN rstrip(SubSeq(s, 1, Len(s) - 1)) ELSE s

strip(s) == rstrip(lstrip(s))

StartsWithAt(s, p, pat) ==
    /\ p >= 1
    /\ p + Len(pat) - 1 <= Len(s)
    /\ \A k \in 1..Len(pat) : s[p + k - 1] = pat[k]

\* str.find: the first index at which pat occurs in s at or after p, 0 when none
RECURSIVE FindFrom(_, _, _)
FindFrom(s, pat, p) ==
    IF p + Len(pat) - 1 > Len(s) THEN 0
    ELSE IF StartsWithAt(s, p, pat) THEN p
    ELSE FindFrom(s, pat, p + 1)

find(s, pat) == FindFrom(s, pat, 1)

\* str.replace(pat, ''): every non-overlapping occurrence of pat removed
RECURSIVE RemoveAll(_, _)
RemoveAll(s, pat) ==
    IF pat = <<>> \/ s = <<>> THEN s
    ELSE IF StartsWithAt(s, 1, pat) THEN RemoveAll(Slice(s, Len(pat) + 1, Len(s)), pat)
    ELSE <<Head(s)>> \o RemoveAll(Tail(s), pat)

\* re.sub(r'\s+', ' ', s): every run of whitespace becomes one space
RECURSIVE CollapseSpaces(_)
CollapseSpaces(s) ==
    IF s = <<>> THEN <<>>
    ELSE IF IsSpace(Head(s))
         THEN <<" ">> \o CollapseSpaces(lstrip(s))
         ELSE <<Head(s)>> \o CollapseSpaces(Tail(s))

---------------------------------------------------------------------------
(* RateLimiter (collectors/utils/__init__.py) *)

\* CleanOldCalls keeping a call that is exactly one window old
CleanOldCalls_Inclusive(calls, t, window) ==
    SelectSeq(calls, LAMBDA call : call >= t - window)

\* [call for call in calls if call > now - timedelta(...)]
CleanOldCalls(calls, t, window) == SelectSeq(calls, LAMBDA call : call > t - window)

\* a can_make_call that counts the call it refuses
can_make_call_Counting(cpm, cpd, t) ==
    LET minute == CleanOldCalls(cpm, t, SecondsPerMinute)
        day == CleanOldCalls(cpd, t, SecondsPerDay)
        ok == Len(minute) < max_queries_per_minute /\ Len(day) < max_queries_per_day
    IN  [calls_per_minute |-> IF ok THEN minute ELSE Append(minute, t),
         calls_per_day |-> IF ok THEN day ELSE Append(day, t),
         result |-> ok]

\* a can_make_call that tests the limit of the minute only
can_make_call_MinuteOnly(cpm, cpd, t) ==
    LET minute == CleanOldCalls(cpm, t, SecondsPerMinute)
        day == CleanOldCalls(cpd, t, SecondsPerDay)
    IN  [calls_per_minute |-> minute,
         calls_per_day |-> day,
         result |-> Len(minute) < max_queries_per_minute]

\* a can_make_call that allows a call when the limit is just reached
can_make_call_OffByOne(cpm, cpd, t) ==
    LET minute == CleanOldCalls(cpm, t, SecondsPerMinute)
        day == CleanOldCalls(cpd, t, SecondsPerDay)
    IN  [calls_per_minute |-> minute,
         calls_per_day |-> day,
         result |-> IF Len(minute) > max_queries_per_minute THEN FALSE
                    ELSE IF Len(day) > max_queries_per_day THEN FALSE
                    ELSE TRUE]

\* can_make_call at time t on the lists cpm, cpd: the pruned lists and the answer
can_make_call(cpm, cpd, t) ==
    LET minute == CleanOldCalls(cpm, t, SecondsPerMinute)
        day == CleanOldCalls(cpd, t, SecondsPerDay)
    IN  [calls_per_minute |-> minute,
         calls_per_day |-> day,
         result |-> IF Len(minute) >= max_queries_per_minute THEN FALSE
                    ELSE IF Len(day) >= max_queries_per_day THEN FALSE
                    ELSE TRUE]

\* get_wait_time that never asks to wait
get_wait_time_NoWait(last, t) == 0

\* get_wait_time at time t with last_call_time last
get_wait_time(last, t) ==
    IF last = None THEN 0
    ELSE Max(0, query_delay_seconds - (t - last[1]))

(* DeduplicationManager *)

\* hashlib.sha256(...).hexdigest(): a digest stands for the text it was made of
sha256(s) == <<"sha256", s>>

normalize(content) == CollapseSpaces(strip(lower(content)))

\* a hash of the body that keeps its case
generate_content_hash_CaseSensitive(content) == sha256(CollapseSpaces(strip(content)))

generate_content_hash(content) == sha256(normalize(content))

is_duplicate_url(cache, url) == url \in cache

is_duplicate_content(cache, content) == generate_content_hash(content) \in cache

\* an add_url that keeps only the latest URL
add_url_Forgetful(cache, url) == {url}

add_url(cache, url) == cache \cup {url}

\* clear_cache(): the caches url_cache and content_hash_cache after it
clear_cache == [url_cache |-> {}, content_hash_cache |-> {}]

add_content(cache, content) == cache \cup {generate_content_hash(content)}

(* urllib.parse.urlparse *)

SchemeChars(c) == IsAlpha(c) \/ IsDigit(c) \/ c \in {"+", "-", "."}

\* the scheme of url, lower-cased, and what follows its colon
urlparse_scheme(url) ==
    LET i == find(url, <<":">>)
    IN  IF i > 1 /\ IsAlpha(url[1]) /\ \A k \in 1..(i - 1) : SchemeChars(url[k])
        THEN [scheme |-> lower(SubSeq(url, 1, i - 1)), rest |-> Slice(url, i + 1, Len(url))]
        ELSE [scheme |-> <<>>, rest |-> url]

\* _splitnetloc: the first of '/', '?', '#' at or after p, Len(s) + 1 when none
RECURSIVE NetlocEnd(_, _)
NetlocEnd(s, p) ==
    IF p > Len(s) THEN p
    ELSE IF s[p] \in {"/", "?", "#"} THEN p
    ELSE NetlocEnd(s, p + 1)

Contains(s, c) == \E k \in 1..Len(s) : s[k] = c

\* [ok |-> FALSE] stands for ValueError("Invalid IPv6 URL")
urlparse(url) ==
    LET sch == urlparse_scheme(url)
        rest == sch.rest
        netloc == IF StartsWithAt(rest, 1, <<"/", "/">>)
                  THEN Slice(rest, 3, NetlocEnd(rest, 3) - 1)
                  ELSE <<>>
    IN  IF Contains(netloc, "[") # Contains(netloc, "]")
        THEN [ok |-> FALSE, scheme |-> sch.scheme, netloc |-> netloc]
        ELSE [ok |-> TRUE, scheme |-> sch.scheme, netloc |-> netloc]

(* ContentValidator *)

validate_url(url) ==
    LET parsed == urlparse(url)
    IN  IF ~parsed.ok THEN FALSE
        ELSE parsed.scheme # <<>> /\ parsed.netloc # <<>>

validate_content_length(content) == Len(strip(content)) >= min_content_length

\* the domain, or None when urlparse raised
extract_domain(url) ==
    LET parsed == urlparse(url)
    IN  IF ~parsed.ok THEN None ELSE Some(lower(parsed.netloc))

EndsWith(s, suffix) ==
    /\ Len(suffix) <= Len(s)
    /\ \A k \in 1..Len(suffix) : s[Len(s) - Len(suffix) + k] = suffix[k]

\* any(indicator in s for indicator in indicators), for indicators that are not empty
AnyIn(indicators, s) == \E k \in DOMAIN indicators : find(s, indicators[k]) > 0

\* settings.trusted_domains
trusted_domains ==
    <<<<"r", "e", "u", "t", "e", "r", "s", ".", "c", "o", "m">>,
      <<"b", "b", "c", ".", "c", "o", "m">>,
      <<"c", "n", "n", ".", "c", "o", "m">>,
      <<"n", "y", "t", "i", "m", "e", "s", ".", "c", "o", "m">>,
      <<"w", "a", "s", "h", "i", "n", "g", "t", "o", "n", "p", "o", "s", "t", ".", "c", "o", "m">>,
      <<"g", "u", "a", "r", "d", "i", "a", "n", ".", "c", "o", "m">>,
      <<"w", "s", "j", ".", "c", "o", "m">>,
      <<"b", "l", "o", "o", "m", "b", "e", "r", "g", ".", "c", "o", "m">>,
      <<"a", "p", ".", "o", "r", "g">>,
      <<"n", "p", "r", ".", "o", "r", "g">>,
      <<"g", "o", "v", ".", "u", "k">>,
      <<"g", "o", "v", ".", "a", "u">>,
      <<"g", "o", "v", ".", "c", "a">>,
      <<"e", "u", "r", "o", "p", "a", ".", "e", "u">>,
      <<"w", "h", "o", ".", "i", "n", "t">>,
      <<"u", "n", ".", "o", "r", "g">>>>

quality_indicators ==
    <<<<"n", "e", "w", "s">>,
      <<"g", "o", "v">>,
      <<"e", "d", "u">>,
      <<"o", "r", "g">>,
      <<"r", "e", "u", "t", "e", "r", "s">>,
      <<"b", "b", "c">>,
      <<"c", "n", "n">>,
      <<"n", "y", "t", "i", "m", "e", "s">>>>

\* domain is a text, empty for '' and for None alike (both are falsy)
validate_source_quality(url, domain) ==
    IF domain = <<>> THEN FALSE
    ELSE LET domain_lower == lower(domain)
         IN  \/ \E k \in DOMAIN trusted_domains : EndsWith(domain_lower, lower(trusted_domains[k]))
             \/ AnyIn(quality_indicators, domain_lower)

\* source_type_scores.get(source_type, 0.0), in hundredths
source_type_scores(source_type) ==
    CASE source_type = "news" -> 20
      [] source_type = "government" -> 30
      [] source_type = "blog" -> 10
      [] source_type = "forum" -> 5
      [] source_type = "social_media" -> 5
      [] OTHER -> 0

\* the sum before it is clamped, in hundredths
confidence_sum(content, url, domain, source_type) ==
    50 + (IF Len(content) > 200 THEN 10 ELSE 0)
       + (IF Len(content) > 500 THEN 10 ELSE 0)
       + (IF validate_source_quality(url, domain) THEN 20 ELSE 0)
       + source_type_scores(source_type)
       + (IF validate_url(url) THEN 5 ELSE 0)

\* calculate_confidence_score without min(1.0, max(0.0, score))
calculate_confidence_score_Unclamped(content, url, domain, source_type) ==
    confidence_sum(content, url, domain, source_type)

\* calculate_confidence_score with the bonus of the blogs given to the forums
calculate_confidence_score_ForumAsBlog(content, url, domain, source_type) ==
    Min(100, Max(0, confidence_sum(content, url, domain,
                                   IF source_type = "forum" THEN "blog" ELSE source_type)))

\* the score in hundredths: 100 is 1.0
calculate_confidence_score(content, url, domain, source_type) ==
    Min(100, Max(0, confidence_sum(content, url, domain, source_type)))

(* ContentClassifier *)

news_indicators == <<<<"n", "e", "w", "s">>,
      <<"r", "e", "u", "t", "e", "r", "s">>,
      <<"b", "b", "c">>,
      <<"c", "n", "n">>,
      <<"n", "y", "t", "i", "m", "e", "s">>,
      <<"g", "u", "a", "r", "d", "i", "a", "n">>,
      <<"w", "s", "j">>>>
gov_indicators == <<<<"g", "o", "v">>,
      <<"e", "u", "r", "o", "p", "a", ".", "e", "u">>,
      <<"w", "h", "o", ".", "i", "n", "t">>,
      <<"u", "n", ".", "o", "r", "g">>>>
social_indicators == <<<<"t", "w", "i", "t", "t", "e", "r">>,
      <<"f", "a", "c", "e", "b", "o", "o", "k">>,
      <<"l", "i", "n", "k", "e", "d", "i", "n">>,
      <<"r", "e", "d", "d", "i", "t">>,
      <<"y", "o", "u", "t", "u", "b", "e">>>>
forum_indicators == <<<<"f", "o", "r", "u", "m">>,
      <<"d", "i", "s", "c", "u", "s", "s", "i", "o", "n">>,
      <<"c", "o", "m", "m", "u", "n", "i", "t", "y">>>>
blog_indicators == <<<<"b", "l", "o", "g">>,
      <<"m", "e", "d", "i", "u", "m">>,
      <<"s", "u", "b", "s", "t", "a", "c", "k">>>>

\* classify_source_type with the blogs tested before the government sources
classify_source_type_BlogFirst(domain) ==
    IF domain = <<>> THEN "unknown"
    ELSE LET domain_lower == lower(domain)
         IN  IF AnyIn(news_indicators, domain_lower) THEN "news"
             ELSE IF AnyIn(blog_indicators, domain_lower) THEN "blog"
             ELSE IF AnyIn(gov_indicators, domain_lower) THEN "government"
             ELSE IF AnyIn(social_indicators, domain_lower) THEN "social_media"
             ELSE IF AnyIn(forum_indicators, domain_lower) THEN "forum"
             ELSE "unknown"

classify_source_type(domain) ==
    IF domain = <<>> THEN "unknown"
    ELSE LET domain_lower == lower(domain)
         IN  IF AnyIn(news_indicators, domain_lower) THEN "news"
             ELSE IF AnyIn(gov_indicators, domain_lower) THEN "government"
             ELSE IF AnyIn(social_indicators, domain_lower) THEN "social_media"
             ELSE IF AnyIn(forum_indicators, domain_lower) THEN "forum"
             ELSE IF AnyIn(blog_indicators, domain_lower) THEN "blog"
             ELSE "unknown"

\* str.split(): the words between the runs of whitespace
RECURSIVE split(_)
split(s) ==
    LET t == lstrip(s)
        ends == {k \in 1..Len(t) : k = Len(t) \/ IsSpace(t[k + 1])}
        e == CHOOSE k \in ends : \A j \in ends : k <= j
    IN  IF t = <<>> THEN <<>>
        ELSE <<SubSeq(t, 1, e)>> \o split(SubSeq(t, e + 1, Len(t)))

\* content.lower().split() of the content only: the words of the query keep their case
calculate_relevance_score_CaseSensitive(content, search_query) ==
    LET query_words == {split(search_query)[k] : k \in DOMAIN split(search_query)}
        content_words == {split(lower(content))[k] : k \in DOMAIN split(lower(content))}
        overlap == Cardinality(query_words \cap content_words)
        total_query_words == Cardinality(query_words)
    IN  IF total_query_words = 0 THEN <<5, 10>>
        ELSE <<Min(10 * total_query_words, 10 * overlap + 3 * total_query_words),
               10 * total_query_words>>

\* ContentClassifier.calculate_relevance_score; the score is the fraction <<n, d>>:
\* 0.5 is <<5, 10>>, and min(1.0, overlap / total + 0.3) is
\* <<min(10 total, 10 overlap + 3 total), 10 total>>
calculate_relevance_score(content, search_query) ==
    LET query_words == {split(lower(search_query))[k] :
                            k \in DOMAIN split(lower(search_query))}
        content_words == {split(lower(content))[k] : k \in DOMAIN split(lower(content))}
        overlap == Cardinality(query_words \cap content_words)
        total_query_words == Cardinality(query_words)
    IN  IF total_query_words = 0 THEN <<5, 10>>
        ELSE <<Min(10 * total_query_words, 10 * overlap + 3 * total_query_words),
               10 * total_query_words>>

---------------------------------------------------------------------------
(* PerplexityCollector.extract_citations (collectors/perplexity_collector.py) *)

HttpPrefix == <<"h", "t", "t", "p", ":", "/", "/">>
HttpsPrefix == <<"h", "t", "t", "p", "s", ":", "/", "/">>

\* the last index of the run of digits that starts at p; p - 1 when there is none
RECURSIVE DigitsEnd(_, _)
DigitsEnd(s, p) ==
    IF p <= Len(s) /\ IsDigit(s[p]) THEN DigitsEnd(s, p + 1) ELSE p - 1

\* the first '[' at or after p; Len(s) + 1 when there is none
RECURSIVE NextBracket(_, _)
NextBracket(s, p) ==
    IF p > Len(s) THEN p
    ELSE IF s[p] = "[" THEN p
    ELSE NextBracket(s, p + 1)

\* the last index of the run of non-whitespace that starts at p; p - 1 when none
RECURSIVE NonSpaceEnd(_, _)
NonSpaceEnd(s, p) ==
    IF p <= Len(s) /\ ~IsSpace(s[p]) THEN NonSpaceEnd(s, p + 1) ELSE p - 1

\* re.findall(r'\[(\d+)\]\s*([^\[]+)', s) from index p on: the (num, citation_text) pairs
RECURSIVE FindCitations(_, _)
FindCitations(s, p) ==
    IF p > Len(s) THEN <<>>
    ELSE IF s[p] # "[" THEN FindCitations(s, p + 1)
    ELSE LET de == DigitsEnd(s, p + 1)
             q == de + 2
             e == NextBracket(s, q)
         IN  IF de >= p + 1 /\ de + 1 <= Len(s) /\ s[de + 1] = "]" /\ e > q
             THEN LET span == SubSeq(s, q, e - 1)
                      body == lstrip(span)
                      text == IF body = <<>> THEN <<span[Len(span)]>> ELSE body
                  IN  <<[num |-> SubSeq(s, p + 1, de), text |-> text]>>
                          \o FindCitations(s, e)
             ELSE FindCitations(s, p + 1)

\* r'(https?://[^\s]+)' matched at index p: the last index of the match, 0 when no match
UrlMatchEnd(s, p) ==
    LET n == IF StartsWithAt(s, p, HttpsPrefix) THEN Len(HttpsPrefix)
             ELSE IF StartsWithAt(s, p, HttpPrefix) THEN Len(HttpPrefix)
             ELSE 0
    IN  IF n > 0 /\ p + n <= Len(s) /\ ~IsSpace(s[p + n])
        THEN NonSpaceEnd(s, p + n)
        ELSE 0

\* re.search(url_pattern, s): the first URL of s, None when there is none
RECURSIVE SearchUrlFrom(_, _)
SearchUrlFrom(s, p) ==
    IF p > Len(s) THEN None
    ELSE IF UrlMatchEnd(s, p) > 0 THEN Some(SubSeq(s, p, UrlMatchEnd(s, p)))
    ELSE SearchUrlFrom(s, p + 1)

\* re.findall(url_pattern, s) from index p on
RECURSIVE FindAllUrls(_, _)
FindAllUrls(s, p) ==
    IF p > Len(s) THEN <<>>
    ELSE IF UrlMatchEnd(s, p) > 0
         THEN <<SubSeq(s, p, UrlMatchEnd(s, p))>> \o FindAllUrls(s, UrlMatchEnd(s, p) + 1)
    ELSE FindAllUrls(s, p + 1)

\* the last URL of s instead of the first
SearchUrl_Last(s) ==
    LET urls == FindAllUrls(s, 1)
    IN  IF urls = <<>> THEN None ELSE Some(urls[Len(urls)])

SearchUrl(s) == SearchUrlFrom(s, 1)

\* str(n) for 0 <= n < 100
DigitChar(d) ==
    CASE d = 0 -> "0" [] d = 1 -> "1" [] d = 2 -> "2" [] d = 3 -> "3" [] d = 4 -> "4"
      [] d = 5 -> "5" [] d = 6 -> "6" [] d = 7 -> "7" [] d = 8 -> "8" [] OTHER -> "9"

str(n) == IF n < 10 THEN <<DigitChar(n)>> ELSE <<DigitChar(n \div 10), DigitChar(n % 10)>>

\* the citation of one (num, citation_text) pair, None when the text holds no URL
StructuredCitation(m) ==
    LET url_match == SearchUrl(m.text)
    IN  IF url_match = None THEN None
        ELSE LET url == url_match[1]
                 stripped == strip(RemoveAll(m.text, url))
                 title == IF stripped = <<>>
                          THEN <<"C", "i", "t", "a", "t", "i", "o", "n", " ">> \o m.num
                          ELSE stripped
             IN  Some([url |-> url,
                       title |-> title,
                       content |-> Slice(m.text, 1, Min(Len(m.text), SnippetLimit))])

RECURSIVE StructuredCitations(_)
StructuredCitations(matches) ==
    IF matches = <<>> THEN <<>>
    ELSE StructuredCitation(Head(matches)) \o StructuredCitations(Tail(matches))

\* the citation made of the i-th bare URL of content
FallbackCitation(content, url, i) ==
    LET url_start == find(content, url) - 1
        start == Max(0, url_start - SurroundingChars)
        end == Min(Len(content), url_start + Len(url) + SurroundingChars)
    IN  [url |-> url,
         title |-> <<"S", "o", "u", "r", "c", "e", " ">> \o str(i),
         content |-> Slice(content, start + 1, end)]

FallbackCitations(content) ==
    LET urls == FindAllUrls(content, 1)
        n == Min(Len(urls), MaxFallbackUrls)
    IN  [i \in 1..n |-> FallbackCitation(content, urls[i], i)]

\* a decoded JSON value together with its Python type
Json(type, value) == [type |-> type, value |-> value]

JsonNull == Json("NoneType", <<>>)

\* bool(v) of a decoded JSON value
Truthy(v) ==
    CASE v.type = "NoneType" -> FALSE
      [] v.type = "dict" -> DOMAIN v.value # {}
      [] v.type \in {"list", "str"} -> Len(v.value) > 0
      [] v.type = "int" -> v.value # 0
      [] OTHER -> v.value

\* extract_citations(response); the AttributeError, IndexError, KeyError or TypeError of
\* a response of another shape is caught and gives []
extract_citations(response) ==
    IF response.type # "dict" THEN <<>>
    ELSE LET choices == Get(response.value, "choices", Json("list", <<Json("dict", EmptyDict)>>))
         IN  IF choices.type # "list" \/ Len(choices.value) = 0 THEN <<>>
             ELSE IF choices.value[1].type # "dict" THEN <<>>
             ELSE LET message == Get(choices.value[1].value, "message", Json("dict", EmptyDict))
                  IN  IF message.type # "dict" THEN <<>>
                      ELSE LET content == Get(message.value, "content", Json("str", <<>>))
                           IN  IF ~Truthy(content) THEN <<>>
                               ELSE IF content.type # "str" THEN <<>>
                               ELSE LET citations ==
                                            StructuredCitations(FindCitations(content.value, 1))
                                    IN  IF citations = <<>>
                                        THEN FallbackCitations(content.value)
                                        ELSE citations

\* make_api_request without raise_for_status()
make_api_request_StatusIgnored(http) ==
    IF http.raised # None THEN None
    ELSE IF http.json = None THEN None
    ELSE IF http.json[1].type = "NoneType" THEN None
    ELSE http.json

\* requests.post(...), raise_for_status() and response.json(): None when the request
\* raised (ConnectionError, Timeout), the status is 4xx or 5xx, or the body is not JSON;
\* a JSON null body is None as well
make_api_request(http) ==
    IF http.raised # None THEN None
    ELSE IF http.status_code >= 400 /\ http.status_code < 600 THEN None
    ELSE IF http.json = None THEN None
    ELSE IF http.json[1].type = "NoneType" THEN None
    ELSE http.json

\* collect_posts given what make_api_request returned (None: the request failed)
collect_posts(api_response) ==
    IF api_response = None THEN <<>>
    ELSE IF ~Truthy(api_response[1]) THEN <<>>
    ELSE extract_citations(api_response[1])

\* the response.json() of an answer text
ApiResponse(text) ==
    Json("dict", [choices |-> Json("list",
        <<Json("dict", [message |-> Json("dict", [content |-> Json("str", text)])])>>)])

---------------------------------------------------------------------------
(* Topics (models/topic.py, storage/topic_repository.py) *)

Topics == 1..NumTopics

\* Topic.check_frequency_hours default
DefaultCheckFrequencyHours == 24
SecondsPerHour == 3600

priority_order(p) ==
    CASE p = "critical" -> 0 [] p = "normal" -> 1 [] p = "low" -> 2 [] OTHER -> 1

\* a sort by rank that puts the topics of equal rank in the reverse of the list's order
SortByPriority_TiesReversed(list) ==
    LET reversed == [k \in DOMAIN list |-> list[Len(list) + 1 - k]]
    IN  SelectSeq(reversed, LAMBDA t : priority_order(t.collection_priority) = 0)
            \o SelectSeq(reversed, LAMBDA t : priority_order(t.collection_priority) = 1)
            \o SelectSeq(reversed, LAMBDA t : priority_order(t.collection_priority) = 2)

\* list.sort(key=...) is stable: the topics of rank 0, then of rank 1, then of rank 2,
\* each group in the order of the list
SortByPriority(list) ==
    SelectSeq(list, LAMBDA t : priority_order(t.collection_priority) = 0)
        \o SelectSeq(list, LAMBDA t : priority_order(t.collection_priority) = 1)
        \o SelectSeq(list, LAMBDA t : priority_order(t.collection_priority) = 2)

\* the rows select('*').eq('active', True) returns, in table order
ActiveRows(table) == SelectSeq([i \in Topics |-> table[i]], LAMBDA t : t.active)

\* a due check that selects every active topic, whenever it was checked
IsDue_Always(topic, t) == TRUE

\* IsDue with hours_since_check > topic.check_frequency_hours
IsDue_Strict(topic, t) ==
    IF topic.last_checked = None THEN TRUE
    ELSE t - topic.last_checked[1] > topic.check_frequency_hours * SecondsPerHour

\* hours_since_check >= topic.check_frequency_hours, for a topic checked at lc
IsDue(topic, t) ==
    IF topic.last_checked = None THEN TRUE
    ELSE t - topic.last_checked[1] >= topic.check_frequency_hours * SecondsPerHour

get_due_for_collection(table, t) == SelectSeq(ActiveRows(table), LAMBDA topic : IsDue(topic, t))

\* an update_last_checked that writes nothing
update_last_checked_Skipped(table, id, t) == table

\* update_last_checked(topic_id) at time t
update_last_checked(table, id, t) == [table EXCEPT ![id].last_checked = Some(t)]

\* an update_metrics that forgets the posts collected before
update_metrics_Overwrites(table, id, posts_collected) ==
    [table EXCEPT ![id].total_posts_collected = posts_collected,
                  ![id].avg_posts_per_query =
                      <<posts_collected, Max(table[id].query_version, 1)>>]

\* update_metrics(topic_id, posts_collected); the average is kept as a fraction
update_metrics(table, id, posts_collected) ==
    LET new_total == table[id].total_posts_collected + posts_collected
    IN  [table EXCEPT ![id].total_posts_collected = new_total,
                      ![id].avg_posts_per_query =
                          <<new_total, Max(table[id].query_version, 1)>>]

(* BaseCollector (collectors/base_collector.py) *)

\* a determine_collection_strategy that selects 'gap_fill' for a topic checked in the past
determine_collection_strategy_GapFill(topic) ==
    IF topic.last_checked = None THEN "initial" ELSE "gap_fill"

determine_collection_strategy(topic) ==
    IF topic.last_checked = None THEN "initial" ELSE "incremental"

\* validate_post(post_data) against the caches urls, hashes
validate_post(post_data, urls, hashes) ==
    IF ~validate_url(Get(post_data, "source_url", <<>>)) THEN FALSE
    ELSE IF ~validate_content_length(Get(post_data, "content", <<>>)) THEN FALSE
    ELSE IF is_duplicate_url(urls, Get(post_data, "source_url", <<>>)) THEN FALSE
    ELSE IF is_duplicate_content(hashes, Get(post_data, "content", <<>>)) THEN FALSE
    ELSE TRUE

\* PostBase's field validators on the fields process_post fills
PostCreateValid(source_url, title, content) ==
    /\ Len(source_url) >= 1
    /\ StartsWithAt(source_url, 1, HttpPrefix) \/ StartsWithAt(source_url, 1, HttpsPrefix)
    /\ Len(title) <= MaxTitleLength
    /\ Len(content) >= 1

\* process_post(raw_post, topic): the PostCreate, None when its validation raised
process_post(raw_post, topic) ==
    LET source_url == Get(raw_post, "url", <<>>)
        content == Get(raw_post, "content", <<>>)
        title == Get(raw_post, "title", <<>>)
    IN  IF PostCreateValid(source_url, title, content)
        THEN Some([search_query |-> topic.search_query,
                   source_url |-> source_url,
                   source_title |-> title,
                   source_domain |-> extract_domain(source_url),
                   content |-> content])
        ELSE None

\* log_collection_attempt: the row create_log inserts
NewCollectionLog(topic, strategy) ==
    [topic_id |-> topic.id, status |-> "success", collection_strategy |-> strategy,
     total_results |-> 0, new_posts |-> 0, duplicate_posts |-> 0, invalid_posts |-> 0,
     api_calls_used |-> 0, error_message |-> None, completed_at |-> None, updates |-> 0]

\* a finalization that reports as total_results the candidates that passed validate_post
SuccessLog_PassedOnly(log, c, t) ==
    [log EXCEPT !.status = "success",
                !.total_results = Len(c.processed_posts) + c.invalid,
                !.new_posts = Len(c.processed_posts),
                !.duplicate_posts = c.duplicates,
                !.invalid_posts = c.invalid,
                !.api_calls_used = 1,
                !.completed_at = Some(t),
                !.updates = @ + 1]

\* update_collection_log(log_id, status='success', ...) at time t
SuccessLog(log, c, t) ==
    [log EXCEPT !.status = "success",
                !.total_results = Len(c.raw_posts),
                !.new_posts = Len(c.processed_posts),
                !.duplicate_posts = c.duplicates,
                !.invalid_posts = c.invalid,
                !.api_calls_used = 1,
                !.completed_at = Some(t),
                !.updates = @ + 1]

\* an error path that leaves the Collection Attempt as it was created
ErrorLog_Unrecorded(log, e, t) == log

\* update_collection_log(log_id, status='error', error_message=str(e), ...) at time t
ErrorLog(log, e, t) ==
    [log EXCEPT !.status = "error", !.error_message = Some(e),
                !.completed_at = Some(t), !.updates = @ + 1]

(* CollectionScheduler (scheduler/collection_scheduler.py) *)

NewResults ==
    [topics_processed |-> 0, successful_collections |-> 0, failed_collections |-> 0,
     total_posts_collected |-> 0, errors |-> <<>>]

\* the body of the for loop after collect_for_topic returned collection_result
ResultsAfterReturn(res, topic, collection_result) ==
    IF collection_result.success
    THEN [res EXCEPT !.topics_processed = @ + 1,
                     !.successful_collections = @ + 1,
                     !.total_posts_collected = @ + Get(collection_result, "posts_collected", 0)]
    ELSE [res EXCEPT !.topics_processed = @ + 1,
                     !.failed_collections = @ + 1,
                     !.errors = Append(@, <<topic.topic_name,
                                            Get(collection_result, "error", "Unknown error")>>)]

\* the except branch of the for loop without its failed_collections += 1
ResultsAfterRaise_Uncounted(res, topic, e) ==
    [res EXCEPT !.errors = Append(@, <<topic.topic_name, e>>)]

\* the except branch of the for loop
ResultsAfterRaise(res, topic, e) ==
    [res EXCEPT !.failed_collections = @ + 1,
                !.errors = Append(@, <<topic.topic_name, e>>)]

\* the threads that run collect_for_topic side by side, outside SpecConcurrent none
Threads == {1, 2}

NoWorkers ==
    LET WorkerIdle == [pc |-> "idle", t |-> 0, kept |-> <<>>, wake |-> 0, invocations |-> 0] IN
    [w \in Threads |-> WorkerIdle]

\* no direct call has been made
NoCall == [function |-> "none", outcome |-> "none", value |-> <<>>]

\* what a direct call returned
Returned(value) == [function |-> "none", outcome |-> "returned", value |-> value]

NoCollection ==
    [topic |-> None, strategy |-> "", log_id |-> 0, raw_posts |-> <<>>, i |-> 0,
     processed_posts |-> <<>>, duplicates |-> 0, invalid |-> 0, error |-> ""]

---------------------------------------------------------------------------
(* What the environment may do *)

UrlA == HttpsPrefix \o <<"a", ".", "c", "o", "m">>
UrlC == HttpPrefix \o <<"c", ".", "c", "o", "m", "/", "p">>

\* an answer with two citations: the first with a well-formed URL and a body of
\* sufficient length, the second with a body that is too short
AnswerLongAndShort ==
    LET Cite(n) == <<"[">> \o str(n) \o <<"]", " ">> IN
    Cite(1) \o UrlA \o <<" ">> \o Rep("X", 50) \o <<" ">>
        \o Cite(2) \o UrlC \o <<" ">> \o <<"s", "h", "o", "t">>

\* whether a storage call succeeds; at most MaxDbFailures of them raise
DbOutcomes == IF db_failures < MaxDbFailures THEN {TRUE, FALSE} ELSE {TRUE}

DbError == "db error"

TopicRow(id, priority, active) ==
    [id |-> id, topic_name |-> id, search_query |-> <<"x", "y">>, active |-> active,
     collection_priority |-> priority,
     check_frequency_hours |-> DefaultCheckFrequencyHours,
     last_checked |-> None, query_version |-> 1,
     total_posts_collected |-> 0, avg_posts_per_query |-> <<0, 1>>]

\* the tables the run may start from: topics never checked, of mixed priority, the last
\* one active or not; and topics of one priority, the first one checked before, with
\* 5 posts collected under the first version of its query, the second one with a
\* query_version of 0
InitialTopicTables ==
    LET PriorityCycle == <<"low", "critical", "normal", "critical">>
        \* the time of a check made one check period before the run starts
        CheckedBeforeStart == 0 - DefaultCheckFrequencyHours * SecondsPerHour
    IN
    { [id \in Topics |-> TopicRow(id, PriorityCycle[((id - 1) % 4) + 1], id <= lastActive)]
        : lastActive \in {NumTopics - 1, NumTopics} }
    \cup { [id \in Topics |->
               IF id = 1 THEN [TopicRow(id, "normal", TRUE) EXCEPT
                                 !.last_checked = Some(CheckedBeforeStart),
                                 !.query_version = 2,
                                 !.total_posts_collected = 5,
                                 !.avg_posts_per_query = <<5, 1>>]
               ELSE IF id = 2 THEN [TopicRow(id, "normal", TRUE) EXCEPT
                                      !.query_version = 0]
               ELSE TopicRow(id, "normal", TRUE)] }

---------------------------------------------------------------------------
(* The state after construction *)

Init ==
    /\ now = 0
    /\ topics \in InitialTopicTables
    /\ posts = <<>>
    /\ logs = <<>>
    /\ calls_per_minute = <<>>
    /\ calls_per_day = <<>>
    /\ last_call_time = None
    /\ url_cache = {}
    /\ content_hash_cache = {}
    /\ pc = "idle"
    /\ due_topics = <<>>
    /\ ti = 0
    /\ results = NewResults
    /\ col = NoCollection
    /\ call_history = <<>>
    /\ requests_sent = 0
    /\ handed = <<>>
    /\ db_failures = 0
    /\ health_checks = 0
    /\ wait_history = <<>>
    /\ selected = <<>>
    /\ batches = <<>>
    /\ cycles = 0
    /\ running = FALSE
    /\ loop = "off"
    /\ interval_minutes = 0
    /\ interrupted = FALSE
    /\ stop_requested = FALSE
    /\ cache_ops = <<>>
    /\ call_args = NoCall
    /\ call_result = NoCall
    /\ limiter_calls = 0
    /\ workers = NoWorkers

Idle == pc \in {"idle", "returned"}

limiter == <<calls_per_minute, calls_per_day, last_call_time>>
caches == <<url_cache, content_hash_cache>>
tables == <<topics, posts, logs>>
cycle == <<due_topics, ti, results>>
history == <<call_history, wait_history, requests_sent, handed, selected, batches>>
counters == <<db_failures, health_checks, cycles>>
continuous == <<running, loop, interval_minutes, interrupted, stop_requested>>
cache_history == <<cache_ops>>
\* the variables of what is called outside a cycle of the scheduler
direct == <<call_args, call_result, limiter_calls, workers>>

\* time passes between two cycles; the clock starts with the first cycle
Elapse ==
    /\ pc = "returned"
    /\ now < MaxTime
    /\ now' = now + 1
    /\ UNCHANGED <<tables, limiter, caches, pc, cycle, col, history, counters>>
    /\ UNCHANGED <<continuous, cache_history, direct>>

\* a run_collection_cycle that lets the failure of get_due_topics reach its caller
FetchErrorExit_Propagates == "raised"

\* how run_collection_cycle leaves when get_due_topics raised: its outer except
\* appends "Collection cycle error: ..." to results['errors'] and returns results
FetchErrorExit == "returned"

\* run_collection_cycle up to its for loop
StartCycle ==
    /\ Idle
    /\ cycles < MaxCycles
    /\ cycles' = cycles + 1
    /\ \E db_ok \in DbOutcomes :
        LET due == get_due_for_collection(topics, now)
        IN  /\ db_failures' = IF db_ok THEN db_failures ELSE db_failures + 1
            /\ handed' = <<>>
            /\ selected' = IF db_ok THEN [k \in DOMAIN due |-> due[k].id] ELSE <<>>
            /\ IF ~db_ok
               THEN /\ results' = [NewResults EXCEPT
                                     !.errors = <<<<"Collection cycle error", DbError>>>>]
                    /\ due_topics' = <<>>
                    /\ ti' = 0
                    /\ pc' = FetchErrorExit
               ELSE IF due = <<>>
               THEN /\ results' = NewResults
                    /\ due_topics' = <<>>
                    /\ ti' = 0
                    /\ pc' = "returned"
               ELSE /\ results' = NewResults
                    /\ due_topics' = SortByPriority(due)
                    /\ ti' = 1
                    /\ pc' = "topic"
    /\ UNCHANGED <<now, tables, limiter, caches, col, call_history, wait_history,
                   requests_sent, batches, health_checks>>
    /\ UNCHANGED <<continuous, cache_history, direct>>

\* the for loop is over: run_collection_cycle returns results
EndCycle ==
    /\ pc = "topic"
    /\ ti > Len(due_topics)
    /\ pc' = "returned"
    /\ UNCHANGED <<now, tables, limiter, caches, cycle, col, history, counters>>
    /\ UNCHANGED <<continuous, cache_history, direct>>

HandedEntry(topic) ==
    [topic |-> topic.id, log_id |-> 0, api |-> "none", skipped |-> FALSE,
     returned |-> "pending", log_update |-> "none"]

\* collect_for_topic(topic) from its entry to log_collection_attempt, and, when it
\* returns or raises there, the rest of the loop body of run_collection_cycle
BeginTopic ==
    /\ pc = "topic"
    /\ ti <= Len(due_topics)
    /\ LET topic == due_topics[ti]
           chk == can_make_call(calls_per_minute, calls_per_day, now)
           not_collect == [success |-> FALSE, reason |-> "Should not collect"]
       IN  IF ~topic.active
           THEN /\ now + TopicPauseSeconds <= MaxTime
                /\ now' = now + TopicPauseSeconds
                /\ results' = ResultsAfterReturn(results, topic, not_collect)
                /\ handed' = Append(handed, [HandedEntry(topic) EXCEPT
                                               !.returned = "failure"])
                /\ ti' = ti + 1
                /\ UNCHANGED <<logs, calls_per_minute, calls_per_day, pc, col,
                               db_failures, batches>>
           ELSE IF ~chk.result
           THEN /\ now + TopicPauseSeconds <= MaxTime
                /\ now' = now + TopicPauseSeconds
                /\ calls_per_minute' = chk.calls_per_minute
                /\ calls_per_day' = chk.calls_per_day
                /\ results' = ResultsAfterReturn(results, topic, not_collect)
                /\ handed' = Append(handed, [HandedEntry(topic) EXCEPT
                                               !.skipped = TRUE, !.returned = "failure"])
                /\ ti' = ti + 1
                /\ UNCHANGED <<logs, pc, col, db_failures, batches>>
           ELSE \E db_ok \in DbOutcomes :
                /\ calls_per_minute' = chk.calls_per_minute
                /\ calls_per_day' = chk.calls_per_day
                /\ db_failures' = IF db_ok THEN db_failures ELSE db_failures + 1
                /\ IF db_ok
                   THEN /\ logs' = Append(logs, NewCollectionLog(topic,
                                              determine_collection_strategy(topic)))
                        /\ col' = [NoCollection EXCEPT
                                     !.topic = Some(topic),
                                     !.strategy = determine_collection_strategy(topic),
                                     !.log_id = Len(logs) + 1,
                                     !.i = 1]
                        /\ handed' = Append(handed, [HandedEntry(topic) EXCEPT
                                                       !.log_id = Len(logs) + 1])
                        /\ batches' = Append(batches, <<>>)
                        /\ pc' = "rate"
                        /\ UNCHANGED <<now, results, ti>>
                   ELSE /\ results' = ResultsAfterRaise(results, topic, DbError)
                        /\ handed' = Append(handed, [HandedEntry(topic) EXCEPT
                                                       !.returned = "raised"])
                        /\ ti' = ti + 1
                        /\ UNCHANGED <<now, logs, col, pc, batches>>
    /\ UNCHANGED <<topics, posts, last_call_time, caches, due_topics, call_history,
                   wait_history, requests_sent, selected, health_checks, cycles>>
    /\ UNCHANGED <<continuous, cache_history, direct>>

\* handle_rate_limit: wait_if_needed sleeps, then record_call
HandleRateLimit ==
    /\ pc = "rate"
    /\ LET t == now + get_wait_time(last_call_time, now)
       IN  /\ t <= MaxTime
           /\ now' = t
           /\ calls_per_minute' = Append(calls_per_minute, t)
           /\ calls_per_day' = Append(calls_per_day, t)
           /\ last_call_time' = Some(t)
           /\ call_history' = Append(call_history, t)
           /\ wait_history' = Append(wait_history, t - now)
    /\ pc' = "api"
    /\ UNCHANGED <<tables, caches, cycle, col, requests_sent, handed, selected, batches,
                   counters>>
    /\ UNCHANGED <<continuous, cache_history, direct>>

\* collect_posts: one make_api_request, then extract_citations
CollectPosts ==
    /\ pc = "api"
    \* make_api_request returns None (RequestException, bad status, bad JSON) or the
    \* decoded response
    /\ \E api_response \in {None, Some(ApiResponse(AnswerLongAndShort))} :
        /\ col' = [col EXCEPT !.raw_posts = collect_posts(api_response)]
        /\ batches' = [batches EXCEPT ![col.log_id] = collect_posts(api_response)]
        /\ handed' = [handed EXCEPT ![Len(handed)].api =
                        IF api_response = None THEN "failed" ELSE "ok"]
    /\ requests_sent' = requests_sent + 1
    /\ pc' = "posts"
    /\ UNCHANGED <<now, tables, limiter, caches, cycle, call_history, wait_history,
                   selected, counters>>
    /\ UNCHANGED <<continuous, cache_history, direct>>

\* one turn of the for loop over raw_posts: validate_post, process_post,
\* post_repo.create, add_url and add_content
ProcessRawPost ==
    /\ pc = "posts"
    /\ col.i <= Len(col.raw_posts)
    /\ LET raw_post == col.raw_posts[col.i]
           post_data == process_post(raw_post, col.topic[1])
       IN  IF ~validate_post(raw_post, url_cache, content_hash_cache)
           THEN /\ col' = [col EXCEPT !.duplicates = @ + 1, !.i = @ + 1]
                /\ UNCHANGED <<posts, caches, db_failures, cache_ops>>
           ELSE IF post_data = None
           THEN /\ col' = [col EXCEPT !.invalid = @ + 1, !.i = @ + 1]
                /\ UNCHANGED <<posts, caches, db_failures, cache_ops>>
           ELSE \E db_ok \in DbOutcomes :
                /\ db_failures' = IF db_ok THEN db_failures ELSE db_failures + 1
                /\ IF db_ok
                   THEN /\ posts' = Append(posts, post_data[1])
                        /\ col' = [col EXCEPT !.processed_posts = Append(@, post_data[1]),
                                              !.i = @ + 1]
                        /\ url_cache' = add_url(url_cache, post_data[1].source_url)
                        /\ content_hash_cache' =
                               add_content(content_hash_cache, post_data[1].content)
                        /\ cache_ops' = cache_ops
                               \o << <<"add_url", post_data[1].source_url>>,
                                     <<"add_content", post_data[1].content>> >>
                   ELSE /\ col' = [col EXCEPT !.invalid = @ + 1, !.i = @ + 1]
                        /\ UNCHANGED <<posts, caches, cache_ops>>
    /\ UNCHANGED <<now, topics, logs, limiter, pc, cycle, history, health_checks,
                   cycles>>
    /\ UNCHANGED <<continuous, direct>>

\* update_last_checked and update_metrics; either may raise
WriteBack ==
    /\ pc = "posts"
    /\ col.i > Len(col.raw_posts)
    /\ LET id == col.topic[1].id
           checked == update_last_checked(topics, id, now)
       IN  \E first_ok \in DbOutcomes :
           IF ~first_ok
           THEN /\ db_failures' = db_failures + 1
                /\ col' = [col EXCEPT !.error = DbError]
                /\ pc' = "failed"
                /\ UNCHANGED topics
           ELSE \E second_ok \in DbOutcomes :
                IF ~second_ok
                THEN /\ db_failures' = db_failures + 1
                     /\ topics' = checked
                     /\ col' = [col EXCEPT !.error = DbError]
                     /\ pc' = "failed"
                ELSE /\ topics' = update_metrics(checked, id, Len(col.processed_posts))
                     /\ pc' = "finalize"
                     /\ UNCHANGED <<col, db_failures>>
    /\ UNCHANGED <<now, posts, logs, limiter, caches, cycle, history, health_checks,
                   cycles>>
    /\ UNCHANGED <<continuous, cache_history, direct>>

\* update_collection_log(status='success'), the return of collect_for_topic and the
\* rest of the loop body of run_collection_cycle
FinalizeSuccess ==
    /\ pc = "finalize"
    /\ now + TopicPauseSeconds <= MaxTime
    /\ \E db_ok \in DbOutcomes :
        /\ db_failures' = IF db_ok THEN db_failures ELSE db_failures + 1
        /\ logs' = IF db_ok
                   THEN [logs EXCEPT ![col.log_id] = SuccessLog(@, col, now)]
                   ELSE logs
        /\ handed' = [handed EXCEPT ![Len(handed)].returned = "success",
                                    ![Len(handed)].log_update =
                                        IF db_ok THEN "accepted" ELSE "refused"]
    /\ results' = ResultsAfterReturn(results, col.topic[1],
                      [success |-> TRUE, posts_collected |-> Len(col.processed_posts),
                       duplicates |-> col.duplicates, invalid |-> col.invalid,
                       strategy |-> col.strategy])
    /\ now' = now + TopicPauseSeconds
    /\ ti' = ti + 1
    /\ col' = NoCollection
    /\ pc' = "topic"
    /\ UNCHANGED <<topics, posts, limiter, caches, due_topics, call_history,
                   wait_history, requests_sent, selected, batches, health_checks,
                   cycles>>
    /\ UNCHANGED <<continuous, cache_history, direct>>

\* the except branch of collect_for_topic: update_collection_log(status='error'), the
\* return and the rest of the loop body of run_collection_cycle
FinalizeError ==
    /\ pc = "failed"
    /\ now + TopicPauseSeconds <= MaxTime
    /\ \E db_ok \in DbOutcomes :
        /\ db_failures' = IF db_ok THEN db_failures ELSE db_failures + 1
        /\ logs' = IF db_ok
                   THEN [logs EXCEPT ![col.log_id] = ErrorLog(@, col.error, now)]
                   ELSE logs
        /\ handed' = [handed EXCEPT ![Len(handed)].returned = "failure",
                                    ![Len(handed)].log_update =
                                        IF db_ok THEN "accepted" ELSE "refused"]
    /\ results' = ResultsAfterReturn(results, col.topic[1],
                      [success |-> FALSE, error |-> col.error, strategy |-> col.strategy])
    /\ now' = now + TopicPauseSeconds
    /\ ti' = ti + 1
    /\ col' = NoCollection
    /\ pc' = "topic"
    /\ UNCHANGED <<topics, posts, limiter, caches, due_topics, call_history,
                   wait_history, requests_sent, selected, batches, health_checks,
                   cycles>>
    /\ UNCHANGED <<continuous, cache_history, direct>>

\* get_system_health: test_api_connection calls make_api_request("test query")
GetSystemHealth ==
    /\ Idle
    /\ health_checks < MaxHealthChecks
    /\ health_checks' = health_checks + 1
    /\ requests_sent' = requests_sent + 1
    /\ UNCHANGED <<now, tables, limiter, caches, pc, cycle, col, call_history,
                   wait_history, handed, selected, batches, db_failures, cycles>>
    /\ UNCHANGED <<continuous, cache_history, direct>>

Next ==
    \/ Elapse
    \/ StartCycle
    \/ BeginTopic
    \/ HandleRateLimit
    \/ CollectPosts
    \/ ProcessRawPost
    \/ WriteBack
    \/ FinalizeSuccess
    \/ FinalizeError
    \/ EndCycle
    \/ GetSystemHealth

Spec == Init /\ [][Next]_vars

---------------------------------------------------------------------------
(* get_due_for_collection on tables of every shape *)

\* the query is made 25 hours after the oldest last_checked; a last_checked is never,
\* or 25, 24 and 23 hours before the query; the topics of a table have one frequency
\* and each its own active flag and last_checked
InitDue ==
    /\ now = (DefaultCheckFrequencyHours + 1) * SecondsPerHour
    /\ \E frequency \in {DefaultCheckFrequencyHours, DefaultCheckFrequencyHours + 1} :
           \E active \in [Topics -> BOOLEAN] :
               \E checked \in [Topics -> {None, Some(0), Some(SecondsPerHour),
                                          Some(2 * SecondsPerHour)}] :
                   topics = [id \in Topics |->
                                [TopicRow(id, "normal", active[id]) EXCEPT
                                     !.check_frequency_hours = frequency,
                                     !.last_checked = checked[id]]]
    /\ posts = <<>>
    /\ logs = <<>>
    /\ calls_per_minute = <<>>
    /\ calls_per_day = <<>>
    /\ last_call_time = None
    /\ url_cache = {}
    /\ content_hash_cache = {}
    /\ pc = "idle"
    /\ due_topics = <<>>
    /\ ti = 0
    /\ results = NewResults
    /\ col = NoCollection
    /\ call_history = <<>>
    /\ requests_sent = 0
    /\ handed = <<>>
    /\ db_failures = 0
    /\ health_checks = 0
    /\ wait_history = <<>>
    /\ selected = <<>>
    /\ batches = <<>>
    /\ cycles = 0
    /\ running = FALSE
    /\ loop = "off"
    /\ interval_minutes = 0
    /\ interrupted = FALSE
    /\ stop_requested = FALSE
    /\ cache_ops = <<>>
    /\ call_args = NoCall
    /\ call_result = NoCall
    /\ limiter_calls = 0
    /\ workers = NoWorkers

\* get_due_topics(): the due set of the table
GetDueTopics ==
    /\ pc = "idle"
    /\ LET due == get_due_for_collection(topics, now)
       IN  /\ due_topics' = due
           /\ selected' = [k \in DOMAIN due |-> due[k].id]
    /\ pc' = "queried"
    /\ UNCHANGED <<now, tables, limiter, caches, ti, results, col, call_history,
                   wait_history, requests_sent, handed, batches, counters, continuous,
                   cache_history, direct>>

NextDue == GetDueTopics

SpecDue == InitDue /\ [][NextDue]_vars

---------------------------------------------------------------------------
(* run_continuous (scheduler/collection_scheduler.py) *)

\* run_continuous(interval_minutes) up to its while loop
RunContinuous ==
    /\ loop = "off"
    /\ pc = "idle"
    /\ \E minutes \in {0, 1} : interval_minutes' = minutes
    /\ running' = TRUE
    /\ loop' = "running"
    /\ UNCHANGED <<now, tables, limiter, caches, pc, cycle, col, history, counters,
                   interrupted, stop_requested, cache_history, direct>>

\* while self.running: results = self.run_collection_cycle()
LoopCycle ==
    /\ loop = "running"
    /\ pc = "idle"
    /\ running
    /\ StartCycle

\* run_collection_cycle has returned: time.sleep(interval_minutes * 60); had it
\* raised, except Exception and finally would end the loop. Once stop() has been
\* called the loop can only be left after the sleep, and the clock of the model may
\* stand still at MaxTime
LoopSleep ==
    /\ loop = "running"
    /\ pc \in {"returned", "raised"}
    /\ IF pc = "raised"
       THEN /\ loop' = "ended"
            /\ running' = FALSE
            /\ UNCHANGED <<now, pc>>
       ELSE /\ running => now + interval_minutes * SecondsPerMinute <= MaxTime
            /\ now' = Min(MaxTime, now + interval_minutes * SecondsPerMinute)
            /\ pc' = "idle"
            /\ UNCHANGED <<loop, running>>
    /\ UNCHANGED <<tables, limiter, caches, cycle, col, history, counters,
                   interval_minutes, interrupted, stop_requested, cache_history, direct>>

\* while self.running is False: the loop is left, finally sets running = False
LoopExit ==
    /\ loop = "running"
    /\ pc = "idle"
    /\ ~running
    /\ loop' = "ended"
    /\ UNCHANGED <<now, tables, limiter, caches, pc, cycle, col, history, counters,
                   running, interval_minutes, interrupted, stop_requested, cache_history, direct>>

\* a stop() that also abandons the cycle in progress
Stop_Preempting ==
    /\ loop = "running"
    /\ running
    /\ running' = FALSE
    /\ stop_requested' = TRUE
    /\ pc' = IF pc \in {"idle", "returned", "raised"} THEN pc ELSE "returned"
    /\ UNCHANGED <<now, tables, limiter, caches, cycle, col, history, counters,
                   loop, interval_minutes, interrupted, cache_history, direct>>

\* stop(), called from another thread or a signal handler
Stop ==
    /\ loop = "running"
    /\ running
    /\ running' = FALSE
    /\ stop_requested' = TRUE
    /\ UNCHANGED <<now, tables, limiter, caches, pc, cycle, col, history, counters,
                   loop, interval_minutes, interrupted, cache_history, direct>>

\* the operator's KeyboardInterrupt at any point of the loop: no except Exception
\* catches it before run_continuous, whose finally sets running = False
KeyboardInterrupt ==
    /\ loop = "running"
    /\ interrupted' = TRUE
    /\ loop' = "ended"
    /\ running' = FALSE
    /\ pc' = "interrupted"
    /\ UNCHANGED <<now, tables, limiter, caches, cycle, col, history, counters,
                   interval_minutes, stop_requested, cache_history, direct>>

NextContinuous ==
    \/ RunContinuous
    \/ LoopCycle
    \/ BeginTopic
    \/ HandleRateLimit
    \/ CollectPosts
    \/ ProcessRawPost
    \/ WriteBack
    \/ FinalizeSuccess
    \/ FinalizeError
    \/ EndCycle
    \/ LoopSleep
    \/ LoopExit
    \/ Stop
    \/ KeyboardInterrupt

SpecContinuous == Init /\ [][NextContinuous]_vars

\* a step of the thread that runs run_continuous
ThreadStep ==
    \/ LoopCycle
    \/ BeginTopic
    \/ HandleRateLimit
    \/ CollectPosts
    \/ ProcessRawPost
    \/ WriteBack
    \/ FinalizeSuccess
    \/ FinalizeError
    \/ EndCycle
    \/ LoopSleep
    \/ LoopExit

\* the thread of run_continuous keeps running: its calls return and its sleeps end
SpecContinuousFair == Init /\ [][NextContinuous]_vars /\ WF_vars(ThreadStep)

---------------------------------------------------------------------------
(* The DeduplicationManager under any sequence of its operations *)

\* the URLs the cache is called with
CacheUrls == {UrlA, UrlA \o <<"/">>, UrlC}

BodyPlain == <<"a", "b", " ", "c">>
BodyShouting == <<"A", "B", " ", " ", "c">>
BodyPadded == <<" ", "a", "b", "\n", "c", " ">>
BodyOther == <<"a", " ", "b", "c">>

\* the bodies the cache is called with
CacheContents == {BodyPlain, BodyShouting, BodyPadded, BodyOther}

\* deduplication_manager.add_url(url)
AddUrl(url) ==
    /\ Len(cache_ops) < MaxCacheOps
    /\ url_cache' = add_url(url_cache, url)
    /\ cache_ops' = Append(cache_ops, <<"add_url", url>>)
    /\ UNCHANGED <<now, tables, limiter, content_hash_cache, pc, cycle, col, history,
                   counters, continuous, direct>>

\* deduplication_manager.add_content(content)
AddContent(content) ==
    /\ Len(cache_ops) < MaxCacheOps
    /\ content_hash_cache' = add_content(content_hash_cache, content)
    /\ cache_ops' = Append(cache_ops, <<"add_content", content>>)
    /\ UNCHANGED <<now, tables, limiter, url_cache, pc, cycle, col, history, counters,
                   continuous, direct>>

\* deduplication_manager.clear_cache()
ClearCache ==
    /\ Len(cache_ops) < MaxCacheOps
    /\ url_cache' = clear_cache.url_cache
    /\ content_hash_cache' = clear_cache.content_hash_cache
    /\ cache_ops' = Append(cache_ops, <<"clear_cache", <<>>>>)
    /\ UNCHANGED <<now, tables, limiter, pc, cycle, col, history, counters, continuous,
                   direct>>

NextCache ==
    \/ \E url \in CacheUrls : AddUrl(url)
    \/ \E content \in CacheContents : AddContent(content)
    \/ ClearCache

SpecCache == Init /\ [][NextCache]_vars

---------------------------------------------------------------------------
(* The RateLimiter under any sequence of its operations, at any pace *)

\* rate_limiter.can_make_call(), delay seconds after the call before it
CanMakeCall(delay) ==
    /\ limiter_calls < MaxLimiterCalls
    /\ limiter_calls' = limiter_calls + 1
    /\ now' = now + delay
    /\ LET check == can_make_call(calls_per_minute, calls_per_day, now')
       IN  /\ calls_per_minute' = check.calls_per_minute
           /\ calls_per_day' = check.calls_per_day
           /\ call_args' = [function |-> "can_make_call", t |-> now',
                            recorded |-> call_history]
           /\ call_result' = Returned(check.result)
    /\ UNCHANGED <<tables, last_call_time, caches, pc, cycle, col, wait_history,
                   requests_sent, handed, selected, batches, call_history, counters,
                   continuous, cache_history, workers>>

\* rate_limiter.record_call(), delay seconds after the call before it
RecordCall(delay) ==
    /\ limiter_calls < MaxLimiterCalls
    /\ limiter_calls' = limiter_calls + 1
    /\ now' = now + delay
    /\ calls_per_minute' = Append(calls_per_minute, now')
    /\ calls_per_day' = Append(calls_per_day, now')
    /\ last_call_time' = Some(now')
    /\ call_history' = Append(call_history, now')
    /\ UNCHANGED <<tables, caches, pc, cycle, col, wait_history, requests_sent, handed,
                   selected, batches, counters, continuous, cache_history, call_args,
                   call_result, workers>>

\* the time that passes before a call: a second, just under a minute, just under a day
NextLimiter ==
    LET LimiterDelays == {1, SecondsPerMinute - 2, SecondsPerDay - SecondsPerMinute} IN
    \/ \E delay \in LimiterDelays : CanMakeCall(delay)
    \/ \E delay \in LimiterDelays : RecordCall(delay)

SpecLimiter == Init /\ [][NextLimiter]_vars

---------------------------------------------------------------------------
(* Two threads in collect_for_topic on the one module-level rate_limiter, as when two
   sessions of the dashboard press "Run Collection Cycle" on the scheduler they share.
   Each statement of can_make_call is a step; a list comprehension reads the list and
   then rebinds the attribute, and the other thread may run in between. *)

\* time passes while a thread sleeps in wait_if_needed, up to the end of its sleep; the
\* statements themselves take no time
Tick ==
    /\ \E w \in Threads :
           /\ workers[w].pc = "sleeping"
           /\ workers[w].wake > now
           /\ workers[w].wake <= MaxTime
           /\ now' = workers[w].wake
    /\ UNCHANGED <<tables, limiter, caches, pc, cycle, col, history, counters, continuous,
                   cache_history, call_args, call_result, limiter_calls, workers>>

\* should_collect of an active topic enters can_make_call: now = datetime.utcnow() and
\* the comprehension over calls_per_minute
ReadMinute(w) ==
    /\ workers[w].pc = "idle"
    /\ workers[w].invocations < MaxInvocations
    /\ workers' = [workers EXCEPT ![w] =
           [@ EXCEPT !.pc = "read_minute", !.t = now, !.invocations = @ + 1,
                     !.kept = CleanOldCalls(calls_per_minute, now, SecondsPerMinute)]]
    /\ UNCHANGED <<now, tables, limiter, caches, pc, cycle, col, history, counters,
                   continuous, cache_history, call_args, call_result, limiter_calls>>

\* self.calls_per_minute = [...]
AssignMinute(w) ==
    /\ workers[w].pc = "read_minute"
    /\ calls_per_minute' = workers[w].kept
    /\ workers' = [workers EXCEPT ![w] = [@ EXCEPT !.pc = "minute_done"]]
    /\ UNCHANGED <<now, tables, calls_per_day, last_call_time, caches, pc, cycle, col,
                   history, counters, continuous, cache_history, call_args, call_result,
                   limiter_calls>>

\* the comprehension over calls_per_day
ReadDay(w) ==
    /\ workers[w].pc = "minute_done"
    /\ workers' = [workers EXCEPT ![w] =
           [@ EXCEPT !.pc = "read_day",
                     !.kept = CleanOldCalls(calls_per_day, workers[w].t, SecondsPerDay)]]
    /\ UNCHANGED <<now, tables, limiter, caches, pc, cycle, col, history, counters,
                   continuous, cache_history, call_args, call_result, limiter_calls>>

\* self.calls_per_day = [...]
AssignDay(w) ==
    /\ workers[w].pc = "read_day"
    /\ calls_per_day' = workers[w].kept
    /\ workers' = [workers EXCEPT ![w] = [@ EXCEPT !.pc = "day_done"]]
    /\ UNCHANGED <<now, tables, calls_per_minute, last_call_time, caches, pc, cycle, col,
                   history, counters, continuous, cache_history, call_args, call_result,
                   limiter_calls>>

\* the two tests of can_make_call; refused, collect_for_topic returns; allowed, it goes
\* on to handle_rate_limit (the strategy and the Collection Attempt in between do not
\* touch the limiter)
CheckLimits(w) ==
    /\ workers[w].pc = "day_done"
    /\ workers' = [workers EXCEPT ![w] =
           [@ EXCEPT !.pc = IF Len(calls_per_minute) >= max_queries_per_minute THEN "idle"
                            ELSE IF Len(calls_per_day) >= max_queries_per_day THEN "idle"
                            ELSE "allowed",
                     !.kept = <<>>]]
    /\ UNCHANGED <<now, tables, limiter, caches, pc, cycle, col, history, counters,
                   continuous, cache_history, call_args, call_result, limiter_calls>>

\* wait_if_needed: time.sleep(get_wait_time())
WaitIfNeeded(w) ==
    /\ workers[w].pc = "allowed"
    /\ workers' = [workers EXCEPT ![w] =
           [@ EXCEPT !.pc = "sleeping", !.wake = now + get_wait_time(last_call_time, now)]]
    /\ UNCHANGED <<now, tables, limiter, caches, pc, cycle, col, history, counters,
                   continuous, cache_history, call_args, call_result, limiter_calls>>

\* record_call once the sleep is over; the rest of collect_for_topic does not touch
\* the limiter
WorkerRecordCall(w) ==
    /\ workers[w].pc = "sleeping"
    /\ now >= workers[w].wake
    /\ calls_per_minute' = Append(calls_per_minute, now)
    /\ calls_per_day' = Append(calls_per_day, now)
    /\ last_call_time' = Some(now)
    /\ call_history' = Append(call_history, now)
    /\ workers' = [workers EXCEPT ![w] = [@ EXCEPT !.pc = "idle"]]
    /\ UNCHANGED <<now, tables, caches, pc, cycle, col, wait_history, requests_sent,
                   handed, selected, batches, counters, continuous, cache_history,
                   call_args, call_result, limiter_calls>>

NextConcurrent ==
    \/ Tick
    \/ \E w \in Threads : ReadMinute(w)
    \/ \E w \in Threads : AssignMinute(w)
    \/ \E w \in Threads : ReadDay(w)
    \/ \E w \in Threads : AssignDay(w)
    \/ \E w \in Threads : CheckLimits(w)
    \/ \E w \in Threads : WaitIfNeeded(w)
    \/ \E w \in Threads : WorkerRecordCall(w)

SpecConcurrent == Init /\ [][NextConcurrent]_vars

---------------------------------------------------------------------------
(* Direct calls of single functions: the arguments are drawn in the initial state,
   one action makes the call and keeps what it returned *)

\* requests.post answered; json is None when the body does not decode
HttpAnswer(status_code, json) == [raised |-> None, status_code |-> status_code, json |-> json]

AnswerScenario == <<"S", "e", "e", " ", "[", "1", "]", " ", "h", "t", "t", "p", "s", ":", "/", "/", "a", ".", "c", "o", "m", " ", "a", "n", "d", " ", "m", "o", "r", "e", " ", "[", "2", "]", " ", "h", "t", "t", "p", "s", ":", "/", "/", "b", ".", "c", "o", "m", " ", "i", "n", "f", "o">>

WithChoices(choices) == Json("dict", [choices |-> choices])

\* the bodies that decode: well-formed answers and values of every other shape
JsonBodies ==
    LET AnswerBareUrl == <<"r", "e", "a", "d", " ", "h", "t", "t", "p", "s", ":", "/", "/", "a", ".", "c", "o", "m", " ", "o", "r", " ", "h", "t", "t", "p", ":", "/", "/", "c", ".", "c", "o", "m", "/", "p", " ", "n", "o", "w">>
        AnswerNoUrl == <<"n", "o", " ", "s", "o", "u", "r", "c", "e", "s", " ", "[", "1", "]", " ", "f", "o", "u", "n", "d">>
        \* choices[0].message = message
        WithMessage(message) ==
            WithChoices(Json("list", <<Json("dict", [message |-> message])>>))
        \* choices[0].message.content = content
        WithContent(content) == WithMessage(Json("dict", [content |-> content]))
    IN
    { ApiResponse(AnswerLongAndShort), ApiResponse(AnswerScenario),
      ApiResponse(AnswerBareUrl), ApiResponse(AnswerNoUrl), ApiResponse(<<>>),
      JsonNull, Json("dict", EmptyDict), Json("list", <<>>), Json("list", <<Json("int", 1)>>),
      Json("str", AnswerScenario), Json("str", <<>>), Json("int", 0), Json("int", 7),
      Json("bool", TRUE), Json("bool", FALSE),
      Json("dict", [error |-> Json("str", AnswerNoUrl)]),
      WithChoices(JsonNull), WithChoices(Json("list", <<>>)),
      WithChoices(Json("str", AnswerScenario)), WithChoices(Json("dict", EmptyDict)),
      WithChoices(Json("list", <<JsonNull>>)),
      WithChoices(Json("list", <<Json("str", AnswerScenario)>>)),
      WithChoices(Json("list", <<Json("dict", EmptyDict)>>)),
      WithMessage(JsonNull), WithMessage(Json("str", AnswerScenario)),
      WithMessage(Json("dict", EmptyDict)),
      WithContent(JsonNull), WithContent(Json("int", 7)), WithContent(Json("int", 0)),
      WithContent(Json("list", <<Json("str", AnswerScenario)>>)),
      WithContent(Json("dict", [text |-> Json("str", AnswerScenario)])) }

\* every outcome of the external call
HttpOutcomes ==
    LET StatusCodes == {200, 304, 404, 429, 500} IN
    \* requests.post raised e
    {[raised |-> Some(e), status_code |-> 0, json |-> None] : e \in {"ConnectionError", "Timeout"}}
        \cup {HttpAnswer(s, None) : s \in StatusCodes}
        \cup {HttpAnswer(s, Some(b)) : s \in StatusCodes, b \in JsonBodies}

\* collector.collect_posts(topic, strategy)
CallCollectPosts ==
    /\ call_args.function = "collect_posts"
    /\ call_result.outcome = "none"
    /\ call_result' = Returned(collect_posts(make_api_request(call_args.http)))
    /\ UNCHANGED <<now, tables, limiter, caches, pc, cycle, col, history, counters,
                   continuous, cache_history, call_args, limiter_calls,
                   workers>>

\* the domains: empty or missing, and with the indicators of none, one or two categories
Domains ==
    {<<>>,
     <<"a", ".", "c", "o", "m">>,
     <<"r", "e", "u", "t", "e", "r", "s", ".", "c", "o", "m">>,
     <<"B", "B", "C", ".", "c", "o", "m">>,
     <<"x", ".", "g", "o", "v", ".", "u", "k">>,
     <<"G", "O", "V", ".", "U", "K">>,
     <<"n", "e", "w", "s", ".", "g", "o", "v">>,
     <<"b", "l", "o", "g", ".", "g", "o", "v", ".", "u", "k">>,
     <<"f", "o", "r", "u", "m", ".", "r", "e", "d", "d", "i", "t", ".", "c", "o", "m">>,
     <<"m", "e", "d", "i", "u", "m", ".", "c", "o", "m">>,
     <<"u", "n", "k", "n", "o", "w", "n", ".", "c", "o", "m">>,
     <<"t", "w", "i", "t", "t", "e", "r", ".", "c", "o", "m">>,
     <<"r", "e", "d", "d", "i", "t", ".", "c", "o", "m">>,
     <<"c", "o", "m", "m", "u", "n", "i", "t", "y", ".", "i", "o">>,
     <<"w", "h", "o", ".", "i", "n", "t">>,
     <<"b", "l", "o", "g", ".", "n", "e", "w", "s", ".", "i", "o">>,
     <<"m", "i", "t", ".", "e", "d", "u">>,
     <<"s", "u", "b", "s", "t", "a", "c", "k", ".", "c", "o", "m">>,
     <<"m", "y", "f", "o", "r", "u", "m", ".", "n", "e", "t">>}

ConfidenceScoreCalls ==
    LET \* the bodies: empty, and at and just over each threshold of the length bonus
        ScoredContents == {Rep("x", n) : n \in {0, 200, 201, 500, 501}}
        \* the URLs: empty, well-formed, without a scheme, without a host, and one urlparse rejects
        ScoredUrls ==
            {<<>>,
             <<"h", "t", "t", "p", "s", ":", "/", "/", "a", ".", "c", "o", "m">>,
             <<"i", "n", "v", "a", "l", "i", "d", "-", "u", "r", "l">>,
             <<"h", "t", "t", "p", ":", "/", "/">>,
             <<"h", "t", "t", "p", "s", ":", "/", "/", "n", "e", "w", "s", ".", "g", "o", "v", "/", "p">>,
             <<"h", "t", "t", "p", ":", "/", "/", "[", "a", ".", "c", "o", "m">>}
        \* the source types: the six of the table, and two it does not hold
        SourceTypes == {"news", "government", "blog", "forum", "social_media", "unknown",
                        "academic", ""}
    IN
    [function : {"calculate_confidence_score"}, content : ScoredContents, url : ScoredUrls,
     domain : Domains, source_type : SourceTypes]

\* ContentValidator.calculate_confidence_score(content, url, domain, source_type)
CallCalculateConfidenceScore ==
    /\ call_args.function = "calculate_confidence_score"
    /\ call_result.outcome = "none"
    /\ call_result' = Returned(calculate_confidence_score(call_args.content, call_args.url,
                                   call_args.domain, call_args.source_type))
    /\ UNCHANGED <<now, tables, limiter, caches, pc, cycle, col, history, counters,
                   continuous, cache_history, call_args, limiter_calls,
                   workers>>

\* ContentClassifier.classify_source_type(domain)
CallClassifySourceType ==
    /\ call_args.function = "classify_source_type"
    /\ call_result.outcome = "none"
    /\ call_result' = Returned(classify_source_type(call_args.domain))
    /\ UNCHANGED <<now, tables, limiter, caches, pc, cycle, col, history, counters,
                   continuous, cache_history, call_args, limiter_calls,
                   workers>>

\* the pieces the answer texts are made of
Tokens ==
    {<<"[", "1", "]", " ">>,
     <<"[", "2", "]">>,
     <<"h", "t", "t", "p", "s", ":", "/", "/", "a", ".", "c", "o", "m", " ">>,
     <<"h", "t", "t", "p", ":", "/", "/", "c", ".", "c", "o", "m", "/", "p">>,
     <<"x">>,
     <<" ">>,
     <<"[">>,
     <<"h", "t", "t", "p", ":", "/", "/">>}

RECURSIVE Concat(_)
Concat(texts) == IF texts = <<>> THEN <<>> ELSE Head(texts) \o Concat(Tail(texts))

\* collector.extract_citations(response) of a well-formed response
CallExtractCitations ==
    /\ call_args.function = "extract_citations"
    /\ call_result.outcome = "none"
    /\ call_result' = Returned(extract_citations(ApiResponse(call_args.content)))
    /\ UNCHANGED <<now, tables, limiter, caches, pc, cycle, col, history, counters,
                   continuous, cache_history, call_args, limiter_calls,
                   workers>>

\* ContentClassifier.calculate_relevance_score(content, search_query)
CallCalculateRelevanceScore ==
    /\ call_args.function = "calculate_relevance_score"
    /\ call_result.outcome = "none"
    /\ call_result' = Returned(calculate_relevance_score(call_args.content,
                                                          call_args.search_query))
    /\ UNCHANGED <<now, tables, limiter, caches, pc, cycle, col, history, counters,
                   continuous, cache_history, call_args, limiter_calls,
                   workers>>

\* ContentValidator.extract_domain(url)
CallExtractDomain ==
    /\ call_args.function = "extract_domain"
    /\ call_result.outcome = "none"
    /\ call_result' = Returned(extract_domain(call_args.url))
    /\ UNCHANGED <<now, tables, limiter, caches, pc, cycle, col, history, counters,
                   continuous, cache_history, call_args, limiter_calls,
                   workers>>

\* the texts a relevance is computed of: empty, blank, of one case and of mixed case,
\* with a word twice, with runs of whitespace, and the pair of the test suite
RelevanceTexts ==
    {<<>>, <<" ">>, <<" ", "\n", " ">>, <<"a", "i">>, <<"A", "I">>, <<"a", "i", " ", "m", "l">>, <<" ", "A", "i", " ", " ", "M", "L", "\n", "n", "o", "w", " ">>, <<"a", "i", " ", "a", "i">>, <<"a", " ", "b", " ", "c">>, <<"b", " ", "c", " ", "d">>,
     <<"m", "l", " ", "a", "i", " ", "x">>,
     <<"a", "r", "t", "i", "f", "i", "c", "i", "a", "l", " ", "i", "n", "t", "e", "l", "l", "i", "g", "e", "n", "c", "e">>,
     <<"T", "h", "i", "s", " ", "a", "r", "t", "i", "c", "l", "e", " ", "i", "s", " ", "a", "b", "o", "u", "t", " ", "a", "r", "t", "i", "f", "i", "c", "i", "a", "l", " ", "i", "n", "t", "e", "l", "l", "i", "g", "e", "n", "c", "e", " ", "a", "n", "d", " ", "m", "a", "c", "h", "i", "n", "e", " ", "l", "e", "a", "r", "n", "i", "n", "g">>}

InitDirect ==
    /\ \/ \E h \in HttpOutcomes : call_args = [function |-> "collect_posts", http |-> h]
       \/ \E c \in ConfidenceScoreCalls : call_args = c
       \/ \E d \in Domains : call_args = [function |-> "classify_source_type", domain |-> d]
       \/ \E n \in 0..MaxTokens : \E texts \in [1..n -> Tokens] :
              call_args = [function |-> "extract_citations", content |-> Concat(texts)]
       \/ call_args = [function |-> "extract_citations", content |-> AnswerScenario]
       \/ \E content \in RelevanceTexts : \E search_query \in RelevanceTexts :
              call_args = [function |-> "calculate_relevance_score", content |-> content,
                           search_query |-> search_query]
       \* the URLs of the test suite, and URLs without a host, of mixed case, without a
       \* scheme, and one urlparse rejects
       \/ \E url \in {<<"h", "t", "t", "p", "s", ":", "/", "/", "e", "x", "a", "m", "p", "l", "e", ".", "c", "o", "m", "/", "p", "a", "t", "h">>,
                         <<"h", "t", "t", "p", ":", "/", "/", "s", "u", "b", "d", "o", "m", "a", "i", "n", ".", "e", "x", "a", "m", "p", "l", "e", ".", "c", "o", "m">>,
                         <<"i", "n", "v", "a", "l", "i", "d", "-", "u", "r", "l">>,
                         <<>>,
                         <<"H", "T", "T", "P", "S", ":", "/", "/", "E", "x", "a", "m", "p", "l", "e", ".", "C", "O", "M", "/", "p">>,
                         <<"h", "t", "t", "p", ":", "/", "/">>,
                         <<"h", "t", "t", "p", ":", "/", "/", "[", "a", ".", "c", "o", "m">>,
                         <<"/", "/", "H", "o", "s", "t", ".", "i", "o", "/", "x">>,
                         <<"a", ".", "c", "o", "m", "/", "p">>} :
              call_args = [function |-> "extract_domain", url |-> url]
    /\ call_result = NoCall
    /\ limiter_calls = 0
    /\ workers = NoWorkers
    /\ now = 0
    /\ topics = [id \in Topics |-> TopicRow(id, "normal", TRUE)]
    /\ posts = <<>>
    /\ logs = <<>>
    /\ calls_per_minute = <<>>
    /\ calls_per_day = <<>>
    /\ last_call_time = None
    /\ url_cache = {}
    /\ content_hash_cache = {}
    /\ pc = "idle"
    /\ due_topics = <<>>
    /\ ti = 0
    /\ results = NewResults
    /\ col = NoCollection
    /\ call_history = <<>>
    /\ requests_sent = 0
    /\ handed = <<>>
    /\ db_failures = 0
    /\ health_checks = 0
    /\ wait_history = <<>>
    /\ selected = <<>>
    /\ batches = <<>>
    /\ cycles = 0
    /\ running = FALSE
    /\ loop = "off"
    /\ interval_minutes = 0
    /\ interrupted = FALSE
    /\ stop_requested = FALSE
    /\ cache_ops = <<>>

NextDirect ==
    \/ CallCollectPosts
    \/ CallCalculateConfidenceScore
    \/ CallClassifySourceType
    \/ CallExtractCitations
    \/ CallCalculateRelevanceScore
    \/ CallExtractDomain

SpecDirect == InitDirect /\ [][NextDirect]_vars

---------------------------------------------------------------------------
(* The claims *)

Failed(k) == handed[k].returned \in {"failure", "raised"}

FailedCalls == {k \in DOMAIN handed : handed[k].api = "failed"}

\* C1: when the external call of a topic fails, its Collection Attempt is finalized
\* with status 'error' and an error message, and collect_for_topic returns a failure.
C1_FailedCallFinalizedAsError ==
    \A k \in FailedCalls :
        handed[k].returned # "pending" =>
            /\ handed[k].returned = "failure"
            /\ logs[handed[k].log_id].status = "error"
            /\ logs[handed[k].log_id].error_message # None

\* C2: when the cycle returns, every topic whose external call failed is counted in
\* failed_collections and named by one error string; with 3 due topics of which only
\* the second's call fails, topics_processed = 3, failed_collections = 1 and errors
\* holds exactly one string, which names the second topic.
C2_FailedCallsReported ==
    (pc = "returned" /\ due_topics # <<>>) =>
        /\ results.failed_collections >= Cardinality(FailedCalls)
        /\ \A k \in FailedCalls :
               \E j \in DOMAIN results.errors : results.errors[j][1] = handed[k].topic
        /\ (/\ Len(handed) = 3
            /\ FailedCalls = {2}
            /\ \A k \in DOMAIN handed : handed[k].api # "none"
            /\ db_failures = 0)
           => /\ results.topics_processed = 3
              /\ results.failed_collections = 1
              /\ Len(results.errors) = 1
              /\ results.errors[1][1] = handed[2].topic

\* C3: a topic for which can_make_call() returned False is skipped without being
\* treated as an error: it is not counted in failed_collections, no error string
\* names it, and the topics after it are still visited.
C3_RateLimitedTopicIsNoError ==
    /\ \A k \in DOMAIN handed :
           handed[k].skipped =>
               \A j \in DOMAIN results.errors : results.errors[j][1] # handed[k].topic
    /\ due_topics # <<>> =>
           results.failed_collections =
               Cardinality({k \in DOMAIN handed : Failed(k) /\ ~handed[k].skipped})
    /\ (pc = "returned" /\ due_topics # <<>>) => Len(handed) = Len(due_topics)

\* C4: every external request follows a can_make_call() that returned True and is
\* recorded by record_call(): the requests sent never outnumber the recorded calls.
C4_RequestsAreRecorded == requests_sent <= Len(call_history)

\* C5: once max_queries_per_minute calls were recorded within 60 seconds,
\* can_make_call() returns False until the oldest of them is 60 seconds old, and True
\* from then on when the daily limit is not reached.
C5_FullMinuteWindowBlocks ==
    LET n == Len(call_history)
        first == n - max_queries_per_minute + 1
        answer == can_make_call(calls_per_minute, calls_per_day, now).result
        in_last_day == {k \in DOMAIN call_history : call_history[k] > now - SecondsPerDay}
    IN  (first >= 1 /\ call_history[n] - call_history[first] < SecondsPerMinute) =>
            /\ now - call_history[first] < SecondsPerMinute => answer = FALSE
            /\ (/\ now - call_history[first] >= SecondsPerMinute
                /\ Cardinality(in_last_day) < max_queries_per_day) => answer = TRUE

\* the window was full and its oldest call has left it: can_make_call() is True again
C5_Witness ==
    LET n == Len(call_history)
        first == n - max_queries_per_minute + 1
    IN  /\ first >= 1
        /\ call_history[n] - call_history[first] < SecondsPerMinute
        /\ now - call_history[first] >= SecondsPerMinute
        /\ can_make_call(calls_per_minute, calls_per_day, now).result

\* C6: consecutive timestamps recorded by record_call() are at least
\* query_delay_seconds apart; before each record_call(), wait_if_needed() blocked for
\* max(0, query_delay_seconds - seconds since the previous recorded call), and for 0
\* before the first one.
C6_MinimumSpacing ==
    /\ Len(wait_history) = Len(call_history)
    /\ \A k \in DOMAIN call_history :
           IF k = 1 THEN wait_history[k] = 0
           ELSE /\ call_history[k] - call_history[k - 1] >= query_delay_seconds
                /\ wait_history[k] =
                       Max(0, query_delay_seconds
                                - ((call_history[k] - wait_history[k]) - call_history[k - 1]))

\* a second call that wait_if_needed() had to delay
C6_Witness ==
    /\ Len(call_history) >= 2
    /\ wait_history[2] > 0
    /\ call_history[2] - call_history[1] = query_delay_seconds

\* the candidate is well-formed, long enough and not in the Deduplication Cache
Eligible(raw_post) ==
    /\ validate_url(raw_post.url)
    /\ validate_content_length(raw_post.content)
    /\ ~is_duplicate_url(url_cache, raw_post.url)
    /\ ~is_duplicate_content(content_hash_cache, raw_post.content)

\* C8: a candidate of extract_citations with a well-formed URL, a trimmed body of at
\* least min_content_length characters and neither its URL nor its content in the
\* Deduplication Cache becomes a Content Record, counted in new_posts, when the
\* store accepts the insert.
C8_EligibleCandidateStored ==
    [][(/\ pc = "posts"
        /\ col.i <= Len(col.raw_posts)
        /\ Eligible(col.raw_posts[col.i])
        /\ db_failures' = db_failures)
       => /\ Len(posts') = Len(posts) + 1
          /\ posts'[Len(posts')].source_url = col.raw_posts[col.i].url
          /\ Len(col'.processed_posts) = Len(col.processed_posts) + 1]_vars

FailsValidation(raw_post) ==
    ~validate_url(raw_post.url) \/ ~validate_content_length(raw_post.content)

\* C9: in a finalized Collection Attempt every candidate that failed URL or
\* content-length validation is counted in invalid_posts, and no rejection makes the
\* attempt an error: an attempt ends in error only on a storage failure.
C9_RejectionsCounted ==
    \A id \in DOMAIN logs :
        /\ (logs[id].updates > 0 /\ logs[id].status = "success") =>
               logs[id].invalid_posts >=
                   Cardinality({i \in DOMAIN batches[id] : FailsValidation(batches[id][i])})
        /\ logs[id].status = "error" => logs[id].error_message = Some(DbError)

\* C10: the topics of a cycle are handed to the Collector one by one in the order of
\* the sorted due list, each topic of the due set exactly once, whatever the earlier
\* outcomes; every topic that returned a failure or raised is counted in
\* failed_collections and named in errors, in order.
C10_EveryDueTopicHandedOnce ==
    LET failed == SelectSeq([k \in DOMAIN handed |-> k], Failed)
    IN  /\ Len(due_topics) = Len(selected)
        /\ \A id \in Topics :
               Cardinality({k \in DOMAIN selected : selected[k] = id})
                   = Cardinality({k \in DOMAIN due_topics : due_topics[k].id = id})
        /\ \A i, j \in DOMAIN due_topics :
               i < j => priority_order(due_topics[i].collection_priority)
                           <= priority_order(due_topics[j].collection_priority)
        /\ Len(handed) <= Len(due_topics)
        /\ \A k \in DOMAIN handed : handed[k].topic = due_topics[k].id
        /\ pc = "topic" => Len(handed) = ti - 1
        /\ pc \in {"rate", "api", "posts", "finalize", "failed"} => Len(handed) = ti
        /\ (pc = "returned" /\ due_topics # <<>>) => Len(handed) = Len(due_topics)
        /\ due_topics # <<>> =>
               /\ results.failed_collections = Len(failed)
               /\ Len(results.errors) = Len(failed)
               /\ \A k \in DOMAIN failed :
                      results.errors[k][1] = handed[failed[k]].topic

\* a finished cycle over a list the sort reordered, in which a topic raised and the
\* topic after it was collected
C10_Witness ==
    /\ pc = "returned"
    /\ Len(handed) >= 3
    /\ \E k \in DOMAIN selected : selected[k] # due_topics[k].id
    /\ \E k \in DOMAIN handed :
           /\ k < Len(handed)
           /\ handed[k].returned = "raised"
           /\ handed[k + 1].returned = "success"

\* the rank the ordering contract gives a priority
PriorityRank(p) == CASE p = "critical" -> 0 [] p = "normal" -> 1 [] p = "low" -> 2

\* C11: the due topics are processed in the order of a stable sort by priority rank
\* critical < normal < low: a topic of lower rank comes first, topics of equal rank
\* keep the order in which the due set returned them, and the due set
\* [low, critical, normal, critical] is processed as [critical, critical, normal, low].
C11_StableSortByPriority ==
    LET rank(k) == PriorityRank(due_topics[k].collection_priority)
        pos(id) == CHOOSE k \in DOMAIN selected : selected[k] = id
        returned == [k \in DOMAIN selected |-> topics[selected[k]].collection_priority]
    IN  /\ \A i, j \in DOMAIN due_topics :
               i < j => /\ rank(i) <= rank(j)
                        /\ rank(i) = rank(j) => pos(due_topics[i].id) < pos(due_topics[j].id)
        /\ \A k \in DOMAIN handed : handed[k].topic = due_topics[k].id
        /\ returned = <<"low", "critical", "normal", "critical">> =>
               [k \in DOMAIN due_topics |-> due_topics[k].id]
                   = <<selected[2], selected[4], selected[3], selected[1]>>

\* a finished cycle over the due set [low, critical, normal, critical]
C11_Witness ==
    /\ pc = "returned"
    /\ [k \in DOMAIN selected |-> topics[selected[k]].collection_priority]
           = <<"low", "critical", "normal", "critical">>
    /\ [k \in DOMAIN handed |-> handed[k].topic] = <<2, 4, 3, 1>>

\* C12: get_due_for_collection returns exactly the topics that are active and whose
\* last_checked is null or at least check_frequency_hours hours old, each once: with
\* check_frequency_hours = 24 an active topic never checked is included, one checked
\* 23 hours ago is excluded and one checked 25 hours ago is included; an inactive
\* topic is never included.
C12_DueSetIsExact ==
    pc = "queried" =>
        LET hours(n) == n * 3600
            returned == {selected[k] : k \in DOMAIN selected}
            old_enough(id) ==
                \/ topics[id].last_checked = None
                \/ now - topics[id].last_checked[1] >= hours(topics[id].check_frequency_hours)
        IN  /\ returned = {id \in Topics : topics[id].active /\ old_enough(id)}
            /\ Cardinality(returned) = Len(selected)
            /\ \A id \in Topics :
                   /\ ~topics[id].active => id \notin returned
                   /\ (topics[id].active /\ topics[id].check_frequency_hours = 24) =>
                          /\ topics[id].last_checked = None => id \in returned
                          /\ topics[id].last_checked = Some(now - hours(23)) => id \notin returned
                          /\ topics[id].last_checked = Some(now - hours(25)) => id \in returned

\* the due set of a table with a topic never checked, one checked 23 hours ago, one
\* checked 25 hours ago and an inactive one
C12_Witness ==
    /\ pc = "queried"
    /\ \A id \in Topics : topics[id].check_frequency_hours = 24
    /\ topics[1].active /\ topics[1].last_checked = None
    /\ topics[2].active /\ topics[2].last_checked = Some(now - 23 * 3600)
    /\ topics[3].active /\ topics[3].last_checked = Some(now - 25 * 3600)
    /\ ~topics[4].active
    /\ selected = <<1, 3>>

\* the attempts of this cycle whose collect_for_topic has completed
Completed == {k \in DOMAIN handed : handed[k].log_id # 0 /\ handed[k].returned # "pending"}

\* a record is as created until collect_for_topic completes, is updated then with the
\* final status and counts or the error text when the store accepts the update, and
\* no record is updated twice
AttemptUpdatedOnce ==
    /\ \A id \in DOMAIN logs : logs[id].updates <= 1
    /\ \A k \in DOMAIN handed :
           (handed[k].log_id # 0 /\ handed[k].returned = "pending") =>
               /\ logs[handed[k].log_id].updates = 0
               /\ logs[handed[k].log_id].status = "success"
               /\ logs[handed[k].log_id].completed_at = None
    /\ \A k \in Completed :
           LET log == logs[handed[k].log_id]
           IN  /\ handed[k].log_update \in {"accepted", "refused"}
               /\ handed[k].log_update = "refused" => log.updates = 0
               /\ handed[k].log_update = "accepted" =>
                      /\ log.updates = 1
                      /\ log.completed_at # None
                      /\ handed[k].returned = "success" =>
                             /\ log.status = "success"
                             /\ log.total_results = Len(batches[handed[k].log_id])
                      /\ handed[k].returned = "failure" =>
                             /\ log.status = "error"
                             /\ log.error_message # None

\* C13 (as the code has it): every Collection Attempt record is created with status
\* 'success' and is updated at most once, when collect_for_topic completes, on the
\* success path and on the error path alike: exactly once when the store accepts the
\* update, not at all when the update's storage call fails (the failure is swallowed);
\* a record of a completed collect_for_topic is never changed afterwards.
C13_AttemptUpdatedOnceIfStored ==
    /\ []AttemptUpdatedOnce
    /\ [][\A id \in DOMAIN logs : id # col.log_id => logs'[id] = logs[id]]_vars

\* C13 as stated: every record of a completed collect_for_topic was updated exactly once
C13_AttemptUpdatedExactlyOnce ==
    \A k \in Completed : logs[handed[k].log_id].updates = 1

\* a cycle with an attempt finalized on the success path and one on the error path
C13_Witness ==
    /\ \E k \in Completed :
           /\ handed[k].returned = "success"
           /\ handed[k].log_update = "accepted"
           /\ logs[handed[k].log_id].updates = 1
    /\ \E k \in Completed :
           /\ handed[k].returned = "failure"
           /\ handed[k].log_update = "accepted"
           /\ logs[handed[k].log_id].status = "error"

\* the entry of the topic collect_for_topic is working on
Current == handed[Len(handed)]

\* the steps of a topic, read off the tables: the Attempt is created, the external
\* call is made, the topic's bookkeeping is written back, the Attempt is finalized
AttemptCreated == Len(logs') = Len(logs) + 1
ExternalCallMade == pc = "api" /\ requests_sent' = requests_sent + 1
WrittenBack == topics' # topics
AttemptFinalized ==
    /\ handed # <<>>
    /\ Len(handed') = Len(handed)
    /\ Current.log_update = "none"
    /\ handed'[Len(handed)].log_update # "none"

StepsInOrder ==
    /\ AttemptCreated =>
           /\ \A k \in DOMAIN handed : handed[k].returned # "pending"
           /\ logs'[Len(logs')].updates = 0
    /\ ExternalCallMade =>
           /\ Current.log_id = Len(logs)
           /\ Current.api = "none"
           /\ Current.log_update = "none"
           /\ topics[Current.topic].last_checked = due_topics[ti].last_checked
    /\ WrittenBack =>
           /\ Current.api # "none"
           /\ Current.log_update = "none"
           /\ \A id \in Topics : id # Current.topic => topics'[id] = topics[id]
    /\ AttemptFinalized =>
           /\ Current.api # "none"
           /\ handed'[Len(handed)].returned = "success" =>
                  /\ topics[Current.topic].last_checked # due_topics[ti].last_checked
                  /\ topics[Current.topic].last_checked # None

\* C14: for each topic collected in a cycle the steps occur in the order Collection
\* Attempt created, external call made, last_checked and totals written back, Attempt
\* finalized; no step of the next topic begins before the previous topic's Attempt is
\* finalized: at most one collect_for_topic of a cycle is under way, the latest.
C14_StepsInOrderNoOverlap ==
    /\ [](\A k \in DOMAIN handed : handed[k].returned = "pending" => k = Len(handed))
    /\ [][StepsInOrder]_vars

\* a topic collected and finalized, and the Attempt of the next topic created after it
C14_Witness ==
    \E k \in DOMAIN handed :
        /\ handed[k].returned = "success"
        /\ handed[k].log_update = "accepted"
        /\ k + 1 \in DOMAIN handed
        /\ handed[k + 1].log_id = handed[k].log_id + 1

\* get_due_topics raised in this cycle
FetchFailed == results.errors # <<>> /\ results.errors[1][1] = "Collection cycle error"

\* C15: when the store is unreachable as run_collection_cycle fetches the due topics,
\* the failure is propagated to the caller instead of a result being returned, and no
\* topic is processed in that cycle.
C15_FetchFailurePropagates == FetchFailed => (pc = "raised" /\ handed = <<>>)

\* C16: run_continuous keeps cycling whatever happens inside a cycle: the loop is
\* left only on a KeyboardInterrupt or, at the top of the loop, after stop(); after a
\* cycle that returned, whatever its failures, the loop sleeps and is at its top again.
C16_LoopEndsOnlyOnInterruptOrStop ==
    /\ [](loop = "ended" => (interrupted \/ stop_requested))
    /\ [][(loop = "running" /\ loop' = "ended") =>
              (interrupted' \/ (stop_requested /\ ~running /\ pc = "idle"))]_vars
    /\ [][(loop = "running" /\ pc = "returned" /\ pc' # "returned") =>
              (interrupted' \/ (loop' = "running" /\ pc' = "idle"))]_vars

\* the loop has started its second cycle after a first cycle in which a storage call
\* raised and a topic was reported as failed
C16_Witness ==
    /\ loop = "running"
    /\ running
    /\ cycles = 2
    /\ pc = "topic"
    /\ handed = <<>>
    /\ db_failures >= 1
    /\ \E id \in Topics : topics[id].last_checked # None

\* the positions of the calls of one operation in the record of the cache's calls
CacheCalls(operation) == {k \in DOMAIN cache_ops : cache_ops[k][1] = operation}

\* the position of the last clear_cache(), 0 when there was none
LastClear ==
    IF CacheCalls("clear_cache") = {} THEN 0
    ELSE CHOOSE k \in CacheCalls("clear_cache") : \A j \in CacheCalls("clear_cache") : j <= k

EverAddedUrls == {cache_ops[k][2] : k \in CacheCalls("add_url")}

UrlsAddedSinceClear == {cache_ops[k][2] : k \in {j \in CacheCalls("add_url") : j > LastClear}}

NormalForm(content) == CASE content = BodyOther -> BodyOther [] OTHER -> BodyPlain

EverAddedContents == {cache_ops[k][2] : k \in CacheCalls("add_content")}

\* C19: generate_content_hash depends only on the normalized content: two bodies have
\* the same digest exactly when their normalized forms are equal (the digest taken as
\* free of collisions), normalizing twice gives the hash of normalizing once, and
\* right after add_content(c) is_duplicate_content(c') is True for every c' of the
\* normalized form of c, and False for a body whose normalized form was never added.
C19_HashOfNormalizedContent ==
    /\ \A c1, c2 \in CacheContents :
           generate_content_hash(c1) = generate_content_hash(c2)
               <=> NormalForm(c1) = NormalForm(c2)
    /\ \A c \in CacheContents :
           /\ generate_content_hash(c) = sha256(NormalForm(c))
           /\ generate_content_hash(normalize(c)) = generate_content_hash(c)
    /\ \A c \in CacheContents :
           (\A added \in EverAddedContents : NormalForm(added) # NormalForm(c))
               => ~is_duplicate_content(content_hash_cache, c)
    /\ (cache_ops # <<>> /\ cache_ops[Len(cache_ops)][1] = "add_content") =>
           \A c \in CacheContents :
               NormalForm(c) = NormalForm(cache_ops[Len(cache_ops)][2])
                   => is_duplicate_content(content_hash_cache, c)

\* add_content of a body in upper case with a double space has just been called: the
\* padded body is a duplicate and the body of another normalized form is not
C19_Witness ==
    /\ cache_ops # <<>>
    /\ cache_ops[Len(cache_ops)] = <<"add_content", BodyShouting>>
    /\ is_duplicate_content(content_hash_cache, BodyPadded)
    /\ is_duplicate_content(content_hash_cache, BodyPlain)
    /\ ~is_duplicate_content(content_hash_cache, BodyOther)

\* collect_for_topic is entered for a topic for which should_collect returns False
ShouldNotCollect ==
    /\ pc = "topic"
    /\ ti <= Len(due_topics)
    /\ \/ ~due_topics[ti].active
       \/ ~can_make_call(calls_per_minute, calls_per_day, now).result

\* every timestamp of the list after is one of the list before
NoNewCall(before, after) ==
    \A i \in DOMAIN after : \E j \in DOMAIN before : before[j] = after[i]

\* C20: when should_collect returns False for a topic, collect_for_topic creates no
\* Collection Attempt record, issues no external call, records no call in the Rate
\* Limiter (can_make_call only drops expired timestamps) and leaves the Deduplication
\* Cache, the Content Records and the topic's last_checked and totals unchanged.
C20_SkippedTopicLeavesNoTrace ==
    [][ShouldNotCollect =>
           /\ logs' = logs
           /\ requests_sent' = requests_sent
           /\ call_history' = call_history
           /\ last_call_time' = last_call_time
           /\ NoNewCall(calls_per_minute, calls_per_minute')
           /\ NoNewCall(calls_per_day, calls_per_day')
           /\ url_cache' = url_cache
           /\ content_hash_cache' = content_hash_cache
           /\ posts' = posts
           /\ topics' = topics]_vars

\* a topic was skipped because the minute window was full: it has no Collection
\* Attempt and its last_checked is as it was
C20_Witness ==
    \E k \in DOMAIN handed :
        /\ handed[k].skipped
        /\ handed[k].log_id = 0
        /\ handed[k].api = "none"
        /\ Len(calls_per_minute) = max_queries_per_minute
        /\ topics[handed[k].topic].last_checked = due_topics[k].last_checked

\* the request raised, was answered with an error status, or its body does not decode
TransportOrDecodeFailure(http) ==
    \/ http.raised # None
    \/ http.status_code \in 400..599
    \/ http.json = None

CandidateFields == {"url", "title", "content"}

C22_ConfidenceScoreInUnitRange ==
    (call_args.function = "calculate_confidence_score" /\ call_result.outcome # "none") =>
        /\ call_result.outcome = "returned"
        /\ call_result.value \in 0..100

\* the score of the best input, whose bonuses add up to more than 1, has been returned
\* and so has the score of empty content with a malformed URL, no domain and an
\* unrecognised source type
C22_Witness ==
    /\ call_args.function = "calculate_confidence_score"
    /\ call_result.outcome = "returned"
    /\ \/ /\ Len(call_args.content) > 500
          /\ call_args.source_type = "government"
          /\ validate_source_quality(call_args.url, call_args.domain)
          /\ call_result.value = 100
       \/ /\ call_args.content = <<>>
          /\ ~validate_url(call_args.url)
          /\ call_args.domain = <<>>
          /\ call_args.source_type = "academic"

\* the weight the claim gives to a source type, in hundredths
ClaimedWeight(source_type) ==
    CASE source_type = "news" -> 20
      [] source_type = "government" -> 30
      [] source_type = "blog" -> 10
      [] source_type \in {"forum", "social_media"} -> 5
      [] OTHER -> 0

Bonus(condition, hundredths) == IF condition THEN hundredths ELSE 0

\* C29: calculate_confidence_score equals min(1, 0.5 + 0.1 if the content is longer than
\* 200 + 0.1 if it is longer than 500 + 0.2 if validate_source_quality passes + the
\* weight of the source type + 0.05 if validate_url passes), the weight being 0.2 for
\* news, 0.3 for government, 0.1 for blog, 0.05 for forum and social_media and 0 for
\* 'unknown' and every other value (the score counted in hundredths).
C29_ConfidenceScoreIsClampedSum ==
    (call_args.function = "calculate_confidence_score" /\ call_result.outcome # "none") =>
        call_result.value =
            Min(100, 50 + Bonus(Len(call_args.content) > 200, 10)
                        + Bonus(Len(call_args.content) > 500, 10)
                        + Bonus(validate_source_quality(call_args.url, call_args.domain), 20)
                        + ClaimedWeight(call_args.source_type)
                        + Bonus(validate_url(call_args.url), 5))

\* a forum post of middling length from a domain of no quality, whose sum stays under 1
C29_Witness ==
    /\ call_args.function = "calculate_confidence_score"
    /\ call_args.source_type = "forum"
    /\ Len(call_args.content) = 201
    /\ ~validate_source_quality(call_args.url, call_args.domain)
    /\ validate_url(call_args.url)
    /\ call_result.outcome = "returned"
    /\ call_result.value = 70

\* the categories in the order the claim fixes
CategoryOrder == <<"news", "government", "social_media", "forum", "blog">>

CategoryIndicators ==
    <<news_indicators, gov_indicators, social_indicators, forum_indicators, blog_indicators>>

\* the categories one of whose indicators occurs in the lower-cased domain
MatchingCategories(domain) ==
    {k \in DOMAIN CategoryOrder : AnyIn(CategoryIndicators[k], lower(domain))}

\* C30: classify_source_type returns the first category, in the order news, government,
\* social_media, forum, blog, one of whose indicators occurs in the lower-cased domain,
\* and 'unknown' when none occurs or the domain is empty; a domain with the indicators
\* of two categories gets the earlier one.
C30_FirstMatchingCategory ==
    (call_args.function = "classify_source_type" /\ call_result.outcome # "none") =>
        LET matching == MatchingCategories(call_args.domain)
        IN  call_result.value =
                IF call_args.domain = <<>> \/ matching = {} THEN "unknown"
                ELSE CategoryOrder[CHOOSE k \in matching : \A j \in matching : k <= j]

\* a domain with the indicators of government and of blog has been classified
C30_Witness ==
    /\ call_args.function = "classify_source_type"
    /\ MatchingCategories(call_args.domain) = {2, 5}
    /\ call_result.outcome = "returned"
    /\ call_result.value = "government"

\* the positions of s at which a citation segment '[n] text' begins: a '[', one digit
\* or more, a ']' and at least one character that is not a '['
SegmentStarts(s) ==
    {p \in 1..Len(s) :
        /\ s[p] = "["
        /\ \E d \in (p + 1)..(Len(s) - 2) :
               /\ \A k \in (p + 1)..d : IsDigit(s[k])
               /\ s[d + 1] = "]"
               /\ s[d + 2] # "["}

\* the last position of the segment that begins at p: the one before the next '['
SegmentEnd(s, p) ==
    LET brackets == {q \in (p + 1)..Len(s) : s[q] = "["}
    IN  IF brackets = {} THEN Len(s)
        ELSE (CHOOSE q \in brackets : \A r \in brackets : q <= r) - 1

\* the positions of the segment at p at which a URL begins: http:// or https:// and
\* at least one character that is not white space, all within the segment
UrlStarts(s, p) ==
    {q \in p..SegmentEnd(s, p) :
        \E prefix \in {HttpPrefix, HttpsPrefix} :
            /\ StartsWithAt(s, q, prefix)
            /\ q + Len(prefix) <= SegmentEnd(s, p)
            /\ ~IsSpace(s[q + Len(prefix)])}

\* the first URL of the segment at p: from its first URL start to the last character
\* before white space or the end of the segment
FirstUrl(s, p) ==
    LET q == CHOOSE x \in UrlStarts(s, p) : \A y \in UrlStarts(s, p) : x <= y
        spaces == {k \in q..SegmentEnd(s, p) : IsSpace(s[k])}
        last == IF spaces = {} THEN SegmentEnd(s, p)
                ELSE (CHOOSE k \in spaces : \A j \in spaces : k <= j) - 1
    IN  SubSeq(s, q, last)

\* the segments of s that contain a URL
UrlSegments(s) == {p \in SegmentStarts(s) : UrlStarts(s, p) # {}}

\* the i-th of them in order of appearance
NthUrlSegment(s, i) ==
    CHOOSE p \in UrlSegments(s) : Cardinality({q \in UrlSegments(s) : q < p}) = i - 1

\* C23: extract_citations yields exactly one candidate for each citation segment
\* '[n] text' that contains a URL, carrying the first URL of the segment, in order of
\* appearance; for 'See [1] https://a.com and more [2] https://b.com info' it yields
\* exactly 2 candidates, with the URLs https://a.com and https://b.com.
C23_OneCandidatePerCitedUrl ==
    (call_args.function = "extract_citations" /\ call_result.outcome # "none") =>
        LET s == call_args.content
            candidates == call_result.value
        IN  /\ UrlSegments(s) # {} =>
                   /\ Len(candidates) = Cardinality(UrlSegments(s))
                   /\ \A i \in DOMAIN candidates :
                          candidates[i].url = FirstUrl(s, NthUrlSegment(s, i))
            /\ s = AnswerScenario =>
                   /\ Len(candidates) = 2
                   /\ candidates[1].url = UrlA
                   /\ candidates[2].url = HttpsPrefix \o <<"b", ".", "c", "o", "m">>

\* the candidates of the answer of the scenario have been extracted
C23_Witness ==
    /\ call_args.function = "extract_citations"
    /\ call_args.content = AnswerScenario
    /\ call_result.outcome = "returned"
    /\ Len(call_result.value) = 2

\* the calls of recorded that are younger than window at time t
CallsWithin(recorded, t, window) == {k \in DOMAIN recorded : t - recorded[k] < window}

\* C24: can_make_call() returns True exactly when fewer than max_queries_per_minute
\* calls were recorded in the last 60 seconds and fewer than max_queries_per_day in the
\* last 24 hours, counted over all the calls ever recorded, so that the pruning of the
\* earlier checks never changes the answer; with no recorded call it returns True.
C24_AnswerIsWindowCounts ==
    call_args.function = "can_make_call" =>
        /\ call_result.value =
               (/\ Cardinality(CallsWithin(call_args.recorded, call_args.t, SecondsPerMinute))
                       < max_queries_per_minute
                /\ Cardinality(CallsWithin(call_args.recorded, call_args.t, SecondsPerDay))
                       < max_queries_per_day)
        /\ call_args.recorded = <<>> => call_result.value = TRUE

\* a check refused by the limit of the day alone, after an earlier check has pruned
\* the list of the minute
C24_Witness ==
    /\ call_args.function = "can_make_call"
    /\ call_result.value = FALSE
    /\ Cardinality(CallsWithin(call_args.recorded, call_args.t, SecondsPerMinute))
           < max_queries_per_minute
    /\ Len(calls_per_minute) < Len(calls_per_day)

\* the calls recorded in the 60 seconds that end with the k-th recorded call
RecordedInMinuteBefore(k) ==
    {j \in DOMAIN call_history :
        /\ call_history[j] <= call_history[k]
        /\ call_history[k] - call_history[j] < SecondsPerMinute}

\* C25: when two collect_for_topic invocations run concurrently on the shared Rate
\* Limiter, the permission check and the recording cannot interleave so as to exceed
\* the limit: at most max_queries_per_minute calls are recorded within any rolling 60
\* seconds.
C25_LimitHoldsUnderConcurrency ==
    \A k \in DOMAIN call_history :
        Cardinality(RecordedInMinuteBefore(k)) <= max_queries_per_minute

\* an upper bound of the time the rest of the cycle in progress takes: for each topic
\* left, the wait of the limiter and the pause after the topic
RemainingCycleTime ==
    IF pc \in {"idle", "returned", "raised", "interrupted"} THEN 0
    ELSE (Len(due_topics) - ti + 1) * (query_delay_seconds + TopicPauseSeconds)

\* stop() has been called with run_continuous in its loop, and the clock of the model
\* leaves room for the rest of the cycle
StoppedInLoop ==
    /\ stop_requested
    /\ loop = "running"
    /\ now + RemainingCycleTime <= MaxTime

\* C26: after stop() is called while run_continuous is inside a cycle, the cycle still
\* processes all its remaining due topics (when it returns, every due topic has been
\* handed to collect_for_topic), no further cycle is started, and run_continuous
\* eventually returns with running = False.
C26_StopLetsCycleFinish ==
    /\ []((stop_requested /\ pc = "returned") => Len(handed) = Len(due_topics))
    /\ [][stop_requested => cycles' = cycles]_vars
    /\ (StoppedInLoop ~> (loop = "ended" /\ ~running))

\* stop() has been called during a cycle that still has topics to process; no cycle
\* starts once running is False, so the cycle in progress is the one stop() fell into
C26_Witness ==
    /\ StoppedInLoop
    /\ ~interrupted
    /\ pc = "posts"
    /\ ti < Len(due_topics)

\* C27: determine_collection_strategy returns 'initial' exactly when the topic's
\* last_checked is null and 'incremental' otherwise; no Collection Attempt created by
\* any scheduling path has the strategy 'gap_fill'.
C27_StrategyInitialOrIncremental ==
    /\ \A k \in DOMAIN logs : logs[k].collection_strategy \in {"initial", "incremental"}
    /\ \A k \in DOMAIN handed :
           handed[k].log_id # 0 =>
               /\ (logs[handed[k].log_id].collection_strategy = "initial")
                      = (due_topics[k].last_checked = None)
               /\ (logs[handed[k].log_id].collection_strategy = "incremental")
                      = (due_topics[k].last_checked # None)

\* one cycle has created an attempt for a topic checked before and one for a topic
\* never checked
C27_Witness ==
    /\ \E k \in DOMAIN handed :
           /\ handed[k].log_id # 0
           /\ due_topics[k].last_checked # None
           /\ logs[handed[k].log_id].collection_strategy = "incremental"
    /\ \E k \in DOMAIN handed :
           /\ handed[k].log_id # 0
           /\ due_topics[k].last_checked = None
           /\ logs[handed[k].log_id].collection_strategy = "initial"

\* the step in which the write-back of a collection succeeds
WriteBackSucceeds == pc = "posts" /\ pc' = "finalize"

\* C28: after a successful collection of topic T that stored n new posts, T's
\* total_posts_collected is its previous value plus n and avg_posts_per_query is the new
\* total divided by max(query_version, 1); the total changes in no other step and n is
\* the new_posts count of the attempt, so that over any sequence of collections the
\* total grows by the sum of the new_posts counts of T's successful attempts.
C28_TotalsGrowByNewPosts ==
    /\ [][WriteBackSucceeds =>
            LET T == col.topic[1].id
                n == Len(col.processed_posts)
            IN  /\ topics'[T].total_posts_collected = topics[T].total_posts_collected + n
                /\ topics'[T].avg_posts_per_query =
                       <<topics[T].total_posts_collected + n,
                         IF topics[T].query_version >= 1 THEN topics[T].query_version
                         ELSE 1>>]_vars
    /\ [][\A T \in Topics :
            topics'[T].total_posts_collected # topics[T].total_posts_collected =>
                WriteBackSucceeds /\ col.topic[1].id = T]_vars
    /\ [][(pc = "finalize" /\ pc' = "topic" /\ logs' # logs) =>
            /\ logs'[col.log_id].status = "success"
            /\ logs'[col.log_id].new_posts = Len(col.processed_posts)]_vars

\* the write-back of a successful collection of the topic that had 5 posts under the
\* first version of its query, and of the topic whose query_version is 0
C28_Witness ==
    /\ pc = "finalize"
    /\ \/ /\ col.topic[1].id = 1
          /\ topics[1].query_version = 2
          /\ topics[1].total_posts_collected = 5 + Len(col.processed_posts)
          /\ topics[1].avg_posts_per_query = <<5 + Len(col.processed_posts), 2>>
       \/ /\ col.topic[1].id = 2
          /\ topics[2].query_version = 0
          /\ topics[2].avg_posts_per_query = <<Len(col.processed_posts), 1>>

---------------------------------------------------------------------------
(* C31 *)

\* the words of a text: its longest stretches without whitespace, lower-cased
TokenSet(s) ==
    {lower(SubSeq(s, q[1], q[2])) :
        q \in {r \in (1..Len(s)) \X (1..Len(s)) :
                  /\ r[1] <= r[2]
                  /\ \A k \in r[1]..r[2] : ~IsSpace(s[k])
                  /\ (r[1] = 1 \/ IsSpace(s[r[1] - 1]))
                  /\ (r[2] = Len(s) \/ IsSpace(s[r[2] + 1]))}}

\* C31: calculate_relevance_score returns 0.5 for a query without words, and otherwise
\* min(1, |query words that are content words| / |query words| + 0.3) over the
\* lower-cased words between whitespace; the result is in [0, 1] and at least 0.3
C31_RelevanceIsBoostedOverlap ==
    (call_args.function = "calculate_relevance_score" /\ call_result.outcome = "returned") =>
        LET Q == TokenSet(call_args.search_query)
            C == TokenSet(call_args.content)
            n == call_result.value[1]
            d == call_result.value[2]
        IN  /\ d > 0
            /\ Q = {} => 2 * n = d
            /\ Q # {} => n * 10 * Cardinality(Q)
                            = d * Min(10 * Cardinality(Q),
                                      10 * Cardinality(Q \cap C) + 3 * Cardinality(Q))
            /\ 0 <= n /\ n <= d
            /\ 10 * n >= 3 * d

\* a query of mixed case and irregular whitespace, some of its words in the content and
\* some not, was scored below 1
C31_Witness ==
    /\ call_args.function = "calculate_relevance_score"
    /\ call_result.outcome = "returned"
    /\ call_args.search_query # lower(call_args.search_query)
    /\ TokenSet(call_args.search_query) \cap TokenSet(call_args.content) # {}
    /\ TokenSet(call_args.search_query) \ TokenSet(call_args.content) # {}
    /\ call_result.value[1] < call_result.value[2]

---------------------------------------------------------------------------
(* C33 *)

\* C33: extract_domain returns the lower-cased host of a URL that has one, and None for
\* a string with no host such as 'invalid-url'
C33_DomainOrNone ==
    (call_args.function = "extract_domain" /\ call_result.outcome = "returned"
        /\ urlparse(call_args.url).ok) =>
        IF urlparse(call_args.url).netloc # <<>>
        THEN call_result.value = Some(lower(urlparse(call_args.url).netloc))
        ELSE call_result.value = None

---------------------------------------------------------------------------
(* C32 *)

\* C32: between the end of the processing of a due topic and the start of the next one
\* of the cycle the Scheduler pauses for TopicPauseSeconds, whether the first topic
\* succeeded, returned a failure or raised
C32_PauseBetweenTopics ==
    [][(ti >= 1 /\ ti' = ti + 1 /\ ti' <= Len(due_topics))
          => now' = now + TopicPauseSeconds]_vars

---------------------------------------------------------------------------
(* C36 *)

\* C36: when run_collection_cycle returns, topics_processed is the sum of
\* successful_collections and failed_collections, whatever the topics returned or
\* raised
C36_ProcessedIsSuccessfulPlusFailed ==
    pc = "returned" =>
        results.topics_processed
            = results.successful_collections + results.failed_collections

---------------------------------------------------------------------------
(* C34 *)

\* C34: when the collection of a topic fails, its external call failing or a storage
\* write of the collection raising, the last_checked of the topic is not advanced, so
\* the topic is still due and is retried at the next cycle
C34_FailedTopicStaysDue ==
    (pc \in {"finalize", "failed"} /\ (Current.api = "failed" \/ pc = "failed")) =>
        /\ topics[Current.topic].last_checked = due_topics[ti].last_checked
        /\ IsDue(topics[Current.topic], now)

---------------------------------------------------------------------------
(* C35 *)

\* the calls recorded in the window seconds that end with the k-th recorded call
RecordedWithin(k, window) ==
    {j \in 1..k : call_history[k] - call_history[j] < window}

---------------------------------------------------------------------------
(* C37 *)

\* C37: a collection of a topic that completes at time t writes t as its last_checked,
\* nothing else changes a last_checked, and a topic with a last_checked is in the due
\* set of a cycle only when the cycle starts check_frequency_hours or more after it:
\* the topic is collected at most once per check interval
C37_NotDueWithinInterval ==
    /\ [][\A id \in Topics :
             topics'[id].last_checked # topics[id].last_checked =>
                 /\ pc = "posts"
                 /\ id = Current.topic
                 /\ topics'[id].last_checked = Some(now)]_vars
    /\ [][cycles' = cycles + 1 =>
             \A k \in DOMAIN selected' :
                 LET T == topics[selected'[k]]
                 IN  T.last_checked # None =>
                         now - T.last_checked[1]
                             >= T.check_frequency_hours * SecondsPerHour]_vars

\* the second cycle has selected its topics, and an active topic that the first cycle
\* collected is not among them
C37_Witness ==
    /\ cycles = 2
    /\ pc = "topic"
    /\ selected # <<>>
    /\ \E id \in Topics :
           /\ topics[id].active
           /\ topics[id].last_checked # None
           /\ topics[id].last_checked[1] >= 0
           /\ \A k \in DOMAIN selected : selected[k] # id

---------------------------------------------------------------------------
(* C38 *)

\* C38: every Collection Attempt finalized with status 'success' has total_results
\* equal to new_posts + duplicate_posts + invalid_posts, every candidate of its batch
\* being counted in exactly one of the three, and has api_calls_used equal to 1
C38_SuccessCountsAddUp ==
    /\ [](\A id \in DOMAIN logs :
             (logs[id].updates = 1 /\ logs[id].status = "success") =>
                 /\ logs[id].total_results = Len(batches[id])
                 /\ logs[id].total_results
                        = logs[id].new_posts + logs[id].duplicate_posts
                            + logs[id].invalid_posts
                 /\ logs[id].api_calls_used = 1)
    /\ [][(pc = "posts" /\ col'.i = col.i + 1) =>
             (Len(col'.processed_posts) - Len(col.processed_posts))
                 + (col'.duplicates - col.duplicates)
                 + (col'.invalid - col.invalid) = 1]_vars
    /\ [](pc \in {"posts", "finalize"} =>
             Len(col.processed_posts) + col.duplicates + col.invalid = col.i - 1)

\* an Attempt finalized with status 'success' for a batch of two candidates
C38_Witness ==
    \E id \in DOMAIN logs :
        /\ logs[id].updates = 1
        /\ logs[id].status = "success"
        /\ Len(batches[id]) = 2
        /\ logs[id].total_results = 2

====
